---- MODULE Spec2Model ----
(***************************************************************************)
(* Mesa Git History Viewer (src/mesa_viewer.py): the repository sync       *)
(* workers (run_refresh_logic, run_download_mesa_logic), the Tk UI thread  *)
(* that starts them and services the callbacks they schedule with          *)
(* root.after(0, ...), and the two cache files they write and the UI       *)
(* reads.                                                                  *)
(*                                                                         *)
(* Threads: one UI thread (button handlers and after-callbacks, one at a   *)
(* time) and one daemon thread per click on a button.  A worker step is    *)
(* one action; a blocking subprocess or an open file spans two actions, so *)
(* that other threads can run while it is in progress.                     *)
(***************************************************************************)
EXTENDS Integers, Sequences, FiniteSets, TLC

\* Bounds of the model.
MaxRuns == 2        \* worker threads started in one behaviour
MaxQueue == 4       \* callbacks pending in the Tk after-queue

Runs == 1..MaxRuns

NORMAL == "normal"
DISABLED == "disabled"

\* A cache file's content: who wrote it (0: an earlier session of the
\* program) and how far the write got.  "open": truncated by open(.., "w")
\* and still being written; "mixed": two writers had it open at once.
Absent == [by |-> 0, st |-> "absent"]
OldCache == [by |-> 0, st |-> "complete"]

VARIABLES
    git_path,                 \* shutil.which("git"): "git" or "None"
    mesa_dir,                 \* os.path.exists(self.mesa_dir)
    changelog_history_file,   \* content of Mesa_Changelog_History.txt
    summaries_file,           \* content of Mesa_Summaries.txt
    full_history_data,        \* in-memory records, tagged with the content read
    summaries_data,           \* in-memory release mapping, same tagging
    tree,                     \* what the history table displays
    refresh_btn,              \* state of the 'Refresh' button
    download_btn,             \* state of the 'Download/Update' button
    status_label,             \* text of the status label
    progress_bar,             \* "hidden" or "shown"
    after_queue,              \* callbacks scheduled with root.after(0, ..), FIFO
    ui,                       \* what the UI thread is in the middle of
    root_exists,              \* root.winfo_exists()
    workers,                  \* the worker threads, by run number
    nthreads,                 \* threads started so far
    months_var,               \* text of the 'months' spinbox
    agg_text,                 \* lines of the aggregated-list text widget
    call                      \* a call of one of the data functions: its
                              \* arguments, and its result once it returned

vars == <<git_path, mesa_dir, changelog_history_file,
          summaries_file, full_history_data, summaries_data, tree,
          refresh_btn, download_btn, status_label, progress_bar,
          after_queue, ui, root_exists, workers, nthreads,
          months_var, agg_text, call>>

\* the state of the aggregated-list tab and of the data functions, which
\* the sync workers and the callbacks they schedule leave alone
tools == <<months_var, agg_text, call>>

env == <<git_path, mesa_dir>>
files == <<changelog_history_file, summaries_file>>
data == <<full_history_data, summaries_data, tree>>
widgets == <<refresh_btn, download_btn, status_label, progress_bar>>

\* A thread that has not been started yet.  phases: the phases the run has
\* entered, in order; failed: the phase in which an operation of the run
\* raised ("none" if none did); outcome: "Succeeded" once the run reached
\* its 'complete' block, "Failed" once it reached an except handler or the
\* git guard's return; sched: the callbacks the run passed to root.after;
\* ran: those of its callbacks the UI thread has executed; spawned: the
\* subprocesses the run invoked; wrote: the cache files the run opened for
\* writing.
NoThread ==
    [kind |-> "none", pc |-> "none", phases |-> <<>>, failed |-> "none",
     outcome |-> "none", sched |-> {}, ran |-> {}, spawned |-> <<>>,
     wrote |-> {}]

UiIdle == [at |-> "idle", run |-> 0]

\* no data function is being called
NoCall == [fn |-> "none"]

\* self.load_data() of __init__ , when the mirror exists (no thread exists yet)
InitialData(f) == IF f.st = "absent" THEN Absent ELSE f

Init ==
    /\ git_path \in {"git", "None"}
    /\ mesa_dir \in BOOLEAN
    /\ changelog_history_file \in {Absent, OldCache}
    /\ summaries_file = changelog_history_file
    /\ full_history_data = (IF mesa_dir THEN InitialData(changelog_history_file) ELSE Absent)
    /\ summaries_data = (IF mesa_dir THEN InitialData(summaries_file) ELSE Absent)
    /\ tree = full_history_data
    /\ refresh_btn = (IF git_path = "None" THEN DISABLED ELSE NORMAL)
    /\ download_btn = NORMAL
    /\ status_label = "Ready"
    /\ progress_bar = "hidden"
    /\ after_queue = <<>>
    /\ ui = (IF mesa_dir THEN UiIdle ELSE [at |-> "prompt", run |-> 0])
    /\ root_exists = TRUE
    /\ workers = [w \in Runs |-> NoThread]
    /\ nthreads = 0
    /\ months_var = <<"1">>
    /\ agg_text = <<>>
    /\ call = NoCall

(***************************************************************************)
(* The Tk after-queue.                                                     *)
(***************************************************************************)
Cb(name, w, arg) == [cb |-> name, run |-> w, arg |-> arg]
Status(w, msg) == Cb("status", w, msg)

\* The name under which a callback is recorded in sched and ran: a status
\* update is recorded by its text.
CbName(c) == IF c.cb = "status" THEN c.arg ELSE c.cb
CbNames(cbs) == {CbName(cbs[i]) : i \in 1..Len(cbs)}

\* 'if self.root.winfo_exists(): self.root.after(0, ...)': nothing is
\* scheduled once the window is gone.
Post(q, cbs) == IF root_exists THEN q \o cbs ELSE q
Sched(s, cbs) == IF root_exists THEN s \cup CbNames(cbs) ELSE s

\* The bound on the queue: a thread that would overfill it waits.
CanPost(n) == ~root_exists \/ Len(after_queue) + n <= MaxQueue

Ran(w, name) ==
    IF w \in Runs THEN [workers EXCEPT ![w].ran = @ \cup {name}] ELSE workers

\* The UI thread is idle, and the callback at the head of the queue is 'name'.
Ready(name) ==
    /\ root_exists
    /\ ui.at = "idle"
    /\ after_queue # <<>>
    /\ Head(after_queue).cb = name

(***************************************************************************)
(* UI thread: the button handlers.  A ttk.Button in state DISABLED does    *)
(* not invoke its command, which is the guard on the button's state.       *)
(* Widget calls and Thread.start are taken not to raise.                   *)
(***************************************************************************)
NewThread(kind) ==
    [NoThread EXCEPT !.kind = kind, !.pc = "start", !.sched = {"show_and_start"}]

\* show_progress(), called on the UI thread
show_progress(w) == Post(after_queue, <<Cb("show_and_start", w, "")>>)

start_refresh ==
    /\ root_exists /\ ui.at = "idle"
    /\ refresh_btn = NORMAL
    /\ nthreads < MaxRuns
    /\ CanPost(1)
    /\ refresh_btn' = DISABLED
    /\ after_queue' = show_progress(nthreads + 1)
    /\ workers' = [workers EXCEPT ![nthreads + 1] = NewThread("refresh")]
    /\ nthreads' = nthreads + 1
    /\ UNCHANGED <<tools, env, files, data, download_btn, status_label, progress_bar,
                   ui, root_exists>>

\* the body of start_download_mesa, shared with the start-up prompt
DownloadStarted ==
    /\ nthreads < MaxRuns
    /\ CanPost(1)
    /\ download_btn' = DISABLED
    /\ refresh_btn' = DISABLED
    /\ after_queue' = show_progress(nthreads + 1)
    /\ workers' = [workers EXCEPT ![nthreads + 1] = NewThread("download")]
    /\ nthreads' = nthreads + 1

start_download_mesa ==
    /\ root_exists /\ ui.at = "idle"
    /\ download_btn = NORMAL
    /\ DownloadStarted
    /\ UNCHANGED <<tools, env, files, data, status_label, progress_bar, ui, root_exists>>

\* __init__ found no mirror: messagebox.askyesno, then start_download_mesa
\* or a status message.
prompt_download_mesa(yes) ==
    /\ root_exists /\ ui.at = "prompt"
    /\ ui' = UiIdle
    /\ IF yes
         THEN DownloadStarted
         ELSE /\ CanPost(1)
              /\ after_queue' = Post(after_queue, <<Status(0, "Mesa repository download skipped.")>>)
              /\ UNCHANGED <<download_btn, refresh_btn, workers, nthreads>>
    /\ UNCHANGED <<tools, env, files, data, status_label, progress_bar, root_exists>>

\* The user closes the window: root.mainloop() returns and the process
\* exits.  The pending callbacks and the widgets are destroyed with the
\* window and the worker threads, being daemon threads, end with the
\* process; what stays is what is on disk.
close_window ==
    /\ root_exists
    /\ ui.at = "idle"
    /\ root_exists' = FALSE
    /\ after_queue' = <<>>
    /\ refresh_btn' = "destroyed"
    /\ download_btn' = "destroyed"
    /\ status_label' = "destroyed"
    /\ progress_bar' = "destroyed"
    /\ full_history_data' = Absent
    /\ summaries_data' = Absent
    /\ tree' = Absent
    /\ workers' = [w \in Runs |-> NoThread]
    /\ UNCHANGED <<tools, env, files, ui, nthreads>>

(***************************************************************************)
(* UI thread: the callbacks scheduled with root.after(0, ...), run in      *)
(* FIFO order, one at a time.                                              *)
(***************************************************************************)
\* lambda: self.status_label.config(text=msg)
set_status ==
    /\ Ready("status")
    /\ status_label' = Head(after_queue).arg
    /\ after_queue' = Tail(after_queue)
    /\ workers' = Ran(Head(after_queue).run, Head(after_queue).arg)
    /\ UNCHANGED <<tools, env, files, data, refresh_btn, download_btn, progress_bar,
                   ui, root_exists, nthreads>>

show_and_start ==
    /\ Ready("show_and_start")
    /\ progress_bar' = "shown"
    /\ after_queue' = Tail(after_queue)
    /\ workers' = Ran(Head(after_queue).run, "show_and_start")
    /\ UNCHANGED <<tools, env, files, data, refresh_btn, download_btn, status_label,
                   ui, root_exists, nthreads>>

\* lambda: self.hide_progress(), which schedules stop_and_hide
hide_progress ==
    /\ Ready("hide_progress")
    /\ after_queue' = Post(Tail(after_queue),
                           <<Cb("stop_and_hide", Head(after_queue).run, "")>>)
    /\ workers' = Ran(Head(after_queue).run, "hide_progress")
    /\ UNCHANGED <<tools, env, files, data, widgets, ui, root_exists, nthreads>>

stop_and_hide ==
    /\ Ready("stop_and_hide")
    /\ progress_bar' = "hidden"
    /\ after_queue' = Tail(after_queue)
    /\ workers' = Ran(Head(after_queue).run, "stop_and_hide")
    /\ UNCHANGED <<tools, env, files, data, refresh_btn, download_btn, status_label,
                   ui, root_exists, nthreads>>

\* lambda: messagebox.showerror(...)
showerror ==
    /\ Ready("showerror")
    /\ after_queue' = Tail(after_queue)
    /\ workers' = Ran(Head(after_queue).run, "showerror")
    /\ UNCHANGED <<tools, env, files, data, widgets, ui, root_exists, nthreads>>

\* lambda: self.refresh_btn.config(state=tk.NORMAL)
enable_refresh_btn ==
    /\ Ready("enable_refresh_btn")
    /\ refresh_btn' = NORMAL
    /\ after_queue' = Tail(after_queue)
    /\ workers' = Ran(Head(after_queue).run, "enable_refresh_btn")
    /\ UNCHANGED <<tools, env, files, data, download_btn, status_label, progress_bar,
                   ui, root_exists, nthreads>>

\* lambda: self.download_btn.config(state=tk.NORMAL)
enable_download_btn ==
    /\ Ready("enable_download_btn")
    /\ download_btn' = NORMAL
    /\ after_queue' = Tail(after_queue)
    /\ workers' = Ran(Head(after_queue).run, "enable_download_btn")
    /\ UNCHANGED <<tools, env, files, data, refresh_btn, status_label, progress_bar,
                   ui, root_exists, nthreads>>

\* What reading a cache file yields: nothing if the file does not exist,
\* else its content as it is at the time of the read.
ReadCache(f) == IF f.st = "absent" THEN Absent ELSE f

\* lambda: self.load_data(): the record list is reset, then the history
\* cache is read, then load_summaries reads the summaries cache.  The three
\* steps are one callback: the UI thread does nothing else in between.
load_data ==
    /\ Ready("load_data")
    /\ full_history_data' = Absent
    /\ ui' = [at |-> "read_history", run |-> Head(after_queue).run]
    /\ after_queue' = Tail(after_queue)
    /\ UNCHANGED <<tools, env, files, summaries_data, tree, widgets, root_exists,
                   workers, nthreads>>

load_data_read ==
    /\ ui.at = "read_history"
    /\ full_history_data' = ReadCache(changelog_history_file)
    /\ summaries_data' = Absent
    /\ ui' = [ui EXCEPT !.at = "read_summaries"]
    /\ UNCHANGED <<tools, env, files, tree, widgets, after_queue, root_exists,
                   workers, nthreads>>

load_summaries ==
    /\ ui.at = "read_summaries"
    /\ summaries_data' = ReadCache(summaries_file)
    /\ ui' = UiIdle
    /\ workers' = Ran(ui.run, "load_data")
    /\ UNCHANGED <<tools, env, files, full_history_data, tree, widgets, after_queue,
                   root_exists, nthreads>>

\* lambda: self.update_tree(self.full_history_data)
update_tree ==
    /\ Ready("update_tree")
    /\ tree' = full_history_data
    /\ after_queue' = Tail(after_queue)
    /\ workers' = Ran(Head(after_queue).run, "update_tree")
    /\ UNCHANGED <<tools, env, files, full_history_data, summaries_data, widgets, ui,
                   root_exists, nthreads>>

UIStep ==
    \/ set_status \/ show_and_start \/ hide_progress \/ stop_and_hide
    \/ showerror \/ enable_refresh_btn \/ enable_download_btn
    \/ load_data \/ load_data_read \/ load_summaries \/ update_tree

(***************************************************************************)
(* Worker threads: run_refresh_logic and run_download_mesa_logic.          *)
(***************************************************************************)
\* The status text of each except handler, by kind of run and exception.
FailStatus(kind, exc) ==
    IF kind = "refresh"
      THEN CASE exc = "CalledProcessError" -> "Git pull failed."
             [] exc = "FileNotFoundError" -> "Git command not found."
             [] OTHER -> "Refresh error."
      ELSE CASE exc = "CalledProcessError" -> "Download failed."
             [] exc = "FileNotFoundError" -> "Git not found."
             [] OTHER -> "Download error."

CompleteStatus(kind) ==
    IF kind = "refresh" THEN "Refresh Complete." ELSE "Download and processing complete."

\* An except handler of the worker: a status update and an error dialog.
Handler(w, exc) ==
    <<Status(w, FailStatus(workers[w].kind, exc)), Cb("showerror", w, exc)>>

\* The exception a subprocess.run(..., check=True) raises for an exit status.
ExcOf(rc) == IF rc = "nonzero" THEN "CalledProcessError" ELSE "FileNotFoundError"

\* The thread is at 'pc'.
At(w, pc) == workers[w].pc = pc

\* The download's test, inverted.
DownloadClonesInverted == mesa_dir

\* The decision between clone and pull, as each function takes it.
RefreshClones == ~mesa_dir          \* 'if not os.path.exists(self.mesa_dir)'
DownloadClones == ~mesa_dir         \* the else of 'if os.path.exists(self.mesa_dir)'

\* The guard at the top of both functions, without the check.
NoGitCheck == FALSE

\* 'if self.git_path is None'
GitMissing == git_path = "None"

\* The start of a run: 'if self.git_path is None: ... return'; else the
\* decision between clone and pull, the status updates up to it, and the
\* start of the subprocess.
clone_or_pull(w) ==
    /\ At(w, "start")
    /\ CanPost(2)
    /\ IF GitMissing
         THEN LET cbs == <<Status(w, "Git not found."), Cb("showerror", w, "Git Error")>>
              IN /\ after_queue' = Post(after_queue, cbs)
                 /\ workers' = [workers EXCEPT ![w].pc = "finally",
                                               ![w].failed = "GitCheck",
                                               ![w].outcome = "Failed",
                                               ![w].sched = Sched(@, cbs)]
         ELSE LET clone == IF workers[w].kind = "refresh" THEN RefreshClones
                                                          ELSE DownloadClones
                  cbs == CASE workers[w].kind = "refresh" /\ clone ->
                                <<Status(w, "Updating Repository..."),
                                  Status(w, "Cloning repo (this may take a while)...")>>
                           [] workers[w].kind = "refresh" /\ ~clone ->
                                <<Status(w, "Updating Repository...")>>
                           [] workers[w].kind = "download" /\ clone ->
                                <<Status(w, "Cloning Mesa repository (this may take a while)...")>>
                           [] OTHER -> <<Status(w, "Updating Mesa repository...")>>
              IN /\ after_queue' = Post(after_queue, cbs)
                 /\ workers' = [workers EXCEPT
                        ![w].pc = IF clone THEN "cloning" ELSE "pulling",
                        ![w].phases = Append(@, IF clone THEN "Cloning" ELSE "Pulling"),
                        ![w].spawned = Append(@, IF clone THEN "clone" ELSE "pull"),
                        ![w].sched = Sched(@, cbs)]
    /\ UNCHANGED <<tools, env, files, data, widgets, ui, root_exists, nthreads>>

\* A run that goes on to the log extraction whatever its clone or pull returned.
AfterSyncUnchecked(rc) == "open_history"

\* A run that takes the clone-or-pull decision again when its subprocess failed.
AfterSyncRetry(rc) == IF rc = "ok" THEN "open_history" ELSE "start"

\* Where a run goes after its clone or pull returned 'rc' (check=True).
AfterSync(rc) == IF rc = "ok" THEN "open_history" ELSE "finally"

\* A run that goes on to compile the notes whatever git log returned.
AfterLogUnchecked(rc) == "compile"

\* Where a run goes after git log returned 'rc' (check=True).
AfterLog(rc) == IF rc = "ok" THEN "compile" ELSE "finally"

\* The clone or pull subprocess returns: exit status 0, non-zero, or the
\* executable could not be run.  A clone that succeeded created the mirror.
sync_returns(w, rc) ==
    /\ At(w, "cloning") \/ At(w, "pulling")
    /\ LET cbs == CASE rc # "ok" -> Handler(w, ExcOf(rc))
                    [] rc = "ok" /\ workers[w].kind = "refresh" -> <<>>
                    [] rc = "ok" /\ At(w, "pulling") ->
                         <<Status(w, "Mesa repository updated successfully."),
                           Status(w, "Generating history and summaries...")>>
                    [] OTHER ->
                         <<Status(w, "Mesa repository downloaded successfully."),
                           Status(w, "Generating history and summaries...")>>
       IN /\ CanPost(2)
          /\ after_queue' = Post(after_queue, cbs)
          /\ workers' = [workers EXCEPT
                 ![w].pc = AfterSync(rc),
                 ![w].failed = IF rc = "ok" THEN @ ELSE workers[w].phases[1],
                 ![w].outcome = IF rc = "ok" THEN @ ELSE "Failed",
                 ![w].sched = Sched(@, cbs)]
    /\ mesa_dir' = (mesa_dir \/ rc = "ok")
    /\ UNCHANGED <<tools, git_path, files, data, widgets, ui, root_exists, nthreads>>

\* Some other thread has the file open for writing.
OtherWriter(w, pc) == \E v \in Runs : v # w /\ At(v, pc)

\* The content of a cache file right after 'w' opened it with mode "w".
Opened(w, pc) == [by |-> w, st |-> IF OtherWriter(w, pc) THEN "mixed" ELSE "open"]

\* The content of a cache file when 'w' closes it: 'st' if w was its only
\* writer, a mix of the writers' output otherwise.
Closed(f, w, st) ==
    IF f.by = w /\ f.st = "open" THEN [by |-> w, st |-> st] ELSE [f EXCEPT !.st = "mixed"]

\* 'with open(self.changelog_history_file, "w")' and the start of git log
open_history(w, res) ==
    /\ At(w, "open_history")
    /\ LET cbs == <<Status(w, "Generating Changelog History...")>>
                    \o (IF res = "ok" THEN <<>> ELSE Handler(w, "Exception"))
       IN /\ CanPost(3)
          /\ after_queue' = Post(after_queue, cbs)
          /\ workers' = [workers EXCEPT
                 ![w].pc = IF res = "ok" THEN "logging" ELSE "finally",
                 ![w].phases = Append(@, "GeneratingHistory"),
                 ![w].failed = IF res = "ok" THEN @ ELSE "GeneratingHistory",
                 ![w].outcome = IF res = "ok" THEN @ ELSE "Failed",
                 ![w].spawned = IF res = "ok" THEN Append(@, "log") ELSE @,
                 ![w].wrote = IF res = "ok" THEN @ \cup {"history"} ELSE @,
                 ![w].sched = Sched(@, cbs)]
    /\ changelog_history_file' =
           IF res = "ok" THEN Opened(w, "logging") ELSE changelog_history_file
    /\ UNCHANGED <<tools, env, summaries_file, data, widgets, ui, root_exists, nthreads>>

\* git log returns and the with block closes the history cache.
log_returns(w, rc) ==
    /\ At(w, "logging")
    /\ LET cbs == IF rc = "ok" THEN <<>> ELSE Handler(w, ExcOf(rc))
       IN /\ CanPost(2)
          /\ after_queue' = Post(after_queue, cbs)
          /\ workers' = [workers EXCEPT
                 ![w].pc = AfterLog(rc),
                 ![w].failed = IF rc = "ok" THEN @ ELSE "GeneratingHistory",
                 ![w].outcome = IF rc = "ok" THEN @ ELSE "Failed",
                 ![w].sched = Sched(@, cbs)]
    /\ changelog_history_file' =
           Closed(changelog_history_file, w, IF rc = "ok" THEN "complete" ELSE "partial")
    /\ UNCHANGED <<tools, env, summaries_file, data, widgets, ui, root_exists, nthreads>>

\* 'self.log_status("Compiling Release Notes...")' and generate_summaries_python
\* up to the open of the summaries cache.  The function returns at once if
\* the release-notes directory is missing ("no_dir"), and it logs and
\* swallows an error of os.listdir or of open ("error"): the caller sees a
\* normal return in every case.
generate_summaries_python(w, res) ==
    /\ At(w, "compile")
    /\ LET cbs == <<Status(w, "Compiling Release Notes...")>>
           opens == res = "ok"
       IN /\ CanPost(1)
          /\ after_queue' = Post(after_queue, cbs)
          /\ workers' = [workers EXCEPT
                 ![w].pc = IF opens THEN "writing_summaries" ELSE "complete",
                 ![w].phases = Append(@, "CompilingNotes"),
                 ![w].failed = IF res = "error" THEN "CompilingNotes" ELSE @,
                 ![w].wrote = IF opens THEN @ \cup {"summaries"} ELSE @,
                 ![w].sched = Sched(@, cbs)]
          /\ summaries_file' = IF opens THEN Opened(w, "writing_summaries") ELSE summaries_file
    /\ UNCHANGED <<tools, env, changelog_history_file, data, widgets, ui, root_exists, nthreads>>

\* The blocks are written and the summaries cache is closed; an error while
\* writing is logged and swallowed too.
summaries_written(w, res) ==
    /\ At(w, "writing_summaries")
    /\ workers' = [workers EXCEPT
           ![w].pc = "complete",
           ![w].failed = IF res = "ok" THEN @ ELSE "CompilingNotes"]
    /\ summaries_file' = Closed(summaries_file, w, IF res = "ok" THEN "complete" ELSE "partial")
    /\ UNCHANGED <<tools, env, changelog_history_file, data, widgets, after_queue, ui,
                   root_exists, nthreads>>

\* The reload, scheduled after the table refresh.
ReloadAfterRefresh(w) == <<Cb("update_tree", w, ""), Cb("load_data", w, "")>>

\* The callbacks a run schedules once all its phases returned normally.
Reload(w) == <<Cb("load_data", w, ""), Cb("update_tree", w, "")>>

\* The end of the try block, with the reload done by the worker thread
\* itself instead of being scheduled.
complete_direct(w) ==
    /\ At(w, "complete")
    /\ LET cbs == <<Status(w, CompleteStatus(workers[w].kind)), Cb("update_tree", w, "")>>
       IN /\ CanPost(3)
          /\ after_queue' = Post(after_queue, cbs)
          /\ workers' = [workers EXCEPT ![w].pc = "finally",
                                        ![w].outcome = "Succeeded",
                                        ![w].sched = Sched(@, cbs)]
    /\ full_history_data' = ReadCache(changelog_history_file)
    /\ summaries_data' = ReadCache(summaries_file)
    /\ UNCHANGED <<tools, env, files, tree, widgets, ui, root_exists, nthreads>>

\* The end of the try block: the 'complete' status, and the reload.
complete(w) ==
    /\ At(w, "complete")
    /\ LET cbs == <<Status(w, CompleteStatus(workers[w].kind))>> \o Reload(w)
       IN /\ CanPost(3)
          /\ after_queue' = Post(after_queue, cbs)
          /\ workers' = [workers EXCEPT ![w].pc = "finally",
                                        ![w].outcome = "Succeeded",
                                        ![w].sched = Sched(@, cbs)]
    /\ UNCHANGED <<tools, env, files, data, widgets, ui, root_exists, nthreads>>

\* The restoring callbacks, scheduled at the end of the try block instead of
\* in a finally block: a run that raised schedules none.
RestoreOnSuccess(w) ==
    IF workers[w].outcome # "Succeeded" THEN <<>>
    ELSE IF workers[w].kind = "refresh"
      THEN <<Cb("enable_refresh_btn", w, ""), Cb("hide_progress", w, "")>>
      ELSE <<Cb("enable_download_btn", w, ""), Cb("enable_refresh_btn", w, ""),
             Cb("hide_progress", w, "")>>

\* The callbacks of the finally block of each function.
Restore(w) ==
    IF workers[w].kind = "refresh"
      THEN <<Cb("enable_refresh_btn", w, ""), Cb("hide_progress", w, "")>>
      ELSE <<Cb("enable_download_btn", w, ""), Cb("enable_refresh_btn", w, ""),
             Cb("hide_progress", w, "")>>

\* The finally block; the thread ends.
finally(w) ==
    /\ At(w, "finally")
    /\ CanPost(3)
    /\ after_queue' = Post(after_queue, Restore(w))
    /\ workers' = [workers EXCEPT ![w].pc = "done",
                                  ![w].sched = Sched(@, Restore(w))]
    /\ UNCHANGED <<tools, env, files, data, widgets, ui, root_exists, nthreads>>

RC == {"ok", "nonzero", "notfound"}
IO == {"ok", "error"}

WorkerStep(w) ==
    \/ clone_or_pull(w)
    \/ \E rc \in RC : sync_returns(w, rc)
    \/ \E res \in IO : open_history(w, res)
    \/ \E rc \in RC : log_returns(w, rc)
    \/ \E res \in IO \cup {"no_dir"} : generate_summaries_python(w, res)
    \/ \E res \in IO : summaries_written(w, res)
    \/ complete(w)
    \/ finally(w)

UserStep ==
    \/ start_refresh
    \/ start_download_mesa
    \/ \E yes \in BOOLEAN : prompt_download_mesa(yes)
    \/ close_window

Next ==
    \/ UserStep
    \/ UIStep
    \/ \E w \in Runs : WorkerStep(w)

Spec == Init /\ [][Next]_vars

\* The Tk main loop keeps running the callbacks of its queue.
FairSpec == Spec /\ WF_vars(UIStep)

(***************************************************************************)
(* The data functions.  A text (file name, line, document) is the sequence *)
(* of its characters; the texts are ASCII.  Each function is computed as   *)
(* the source computes it, and has a specification of its own, in which    *)
(* Init draws the arguments and the function is applied to them; the rest  *)
(* of the program is at rest there.                                        *)
(***************************************************************************)
AtRest ==
    /\ git_path = "git"
    /\ mesa_dir = TRUE
    /\ tree = <<>>
    /\ refresh_btn = NORMAL
    /\ download_btn = NORMAL
    /\ status_label = "Ready"
    /\ progress_bar = "hidden"
    /\ after_queue = <<>>
    /\ ui = UiIdle
    /\ root_exists = TRUE
    /\ workers = [w \in Runs |-> NoThread]
    /\ nthreads = 0

\* what a data function leaves alone
rest == <<env, tree, widgets, after_queue, ui, root_exists, workers, nthreads>>

\* the outcome of an expression: a value, or an exception raised
Value(v) == [exc |-> "none", val |-> v]
Raise(e) == [exc |-> e, val |-> <<>>]

DigitChars == <<"0", "1", "2", "3", "4", "5", "6", "7", "8", "9">>
IsDigit(c) == \E i \in 1..Len(DigitChars) : DigitChars[i] = c
DigitVal(c) == (CHOOSE i \in 1..Len(DigitChars) : DigitChars[i] = c) - 1

\* str.isspace()
Space == {" ", "\t", "\n", "\r"}

\* the texts over the characters C of length at most n
Texts(C, n) == UNION {[1..k -> C] : k \in 0..n}

StartsWith(s, pat) == Len(pat) <= Len(s) /\ SubSeq(s, 1, Len(pat)) = pat
EndsWith(s, pat) == Len(pat) <= Len(s) /\ SubSeq(s, Len(s) - Len(pat) + 1, Len(s)) = pat
Drop(s, n) == SubSeq(s, n + 1, Len(s))

\* s.lstrip(), s.rstrip(), s.strip()
RECURSIVE lstrip(_)
lstrip(s) == IF s # <<>> /\ Head(s) \in Space THEN lstrip(Tail(s)) ELSE s

RECURSIVE rstrip(_)
rstrip(s) ==
    IF s # <<>> /\ s[Len(s)] \in Space THEN rstrip(SubSeq(s, 1, Len(s) - 1)) ELSE s

strip(s) == rstrip(lstrip(s))

\* s.replace(old, ""): every occurrence of 'old', left to right
RECURSIVE remove(_, _)
remove(s, old) ==
    IF s = <<>> THEN <<>>
    ELSE IF StartsWith(s, old) THEN remove(Drop(s, Len(old)), old)
    ELSE <<Head(s)>> \o remove(Tail(s), old)

\* the first position at which 'sep' occurs in s, 0 if none
RECURSIVE find(_, _, _)
find(s, sep, i) ==
    IF i + Len(sep) - 1 > Len(s) THEN 0
    ELSE IF SubSeq(s, i, i + Len(sep) - 1) = sep THEN i
    ELSE find(s, sep, i + 1)

\* s.split(sep): always at least one part
RECURSIVE split(_, _)
split(s, sep) ==
    LET i == find(s, sep, 1)
    IN IF i = 0 THEN <<s>>
       ELSE <<SubSeq(s, 1, i - 1)>> \o split(Drop(s, i + Len(sep) - 1), sep)

\* s.split(sep, 1): at most two parts
split1(s, sep) ==
    LET i == find(s, sep, 1)
    IN IF i = 0 THEN <<s>>
       ELSE <<SubSeq(s, 1, i - 1), Drop(s, i + Len(sep) - 1)>>

\* the value of a text of decimal digits and underscores, given the value of
\* the digits before it
RECURSIVE decimal(_, _)
decimal(s, acc) ==
    IF s = <<>> THEN acc
    ELSE IF Head(s) = "_" THEN decimal(Tail(s), acc)
    ELSE decimal(Tail(s), 10 * acc + DigitVal(Head(s)))

\* digits, with single underscores between digits
IntLiteral(s) ==
    /\ s # <<>>
    /\ \A i \in 1..Len(s) :
         \/ IsDigit(s[i])
         \/ s[i] = "_" /\ 1 < i /\ i < Len(s) /\ IsDigit(s[i - 1]) /\ IsDigit(s[i + 1])

\* an int() that takes a text that is no number for zero
int_or_zero(s) ==
    LET t == strip(s) IN IF IntLiteral(t) THEN Value(decimal(t, 0)) ELSE Value(0)

\* int(s) of Python: white space around the number, a sign, and underscores
\* between digits are accepted; anything else raises ValueError
int(s) ==
    LET t == strip(s)
        signed == t # <<>> /\ Head(t) \in {"+", "-"}
        digits == IF signed THEN Tail(t) ELSE t
    IN IF ~IntLiteral(digits) THEN Raise("ValueError")
       ELSE IF signed /\ Head(t) = "-" THEN Value(0 - decimal(digits, 0))
       ELSE Value(decimal(digits, 0))

\* [int(p) for p in parts]: the first int() that raises ends the evaluation
RECURSIVE ints(_)
ints(parts) ==
    IF parts = <<>> THEN Value(<<>>)
    ELSE LET n == int(Head(parts))
             ns == ints(Tail(parts))
         IN IF n.exc # "none" THEN n
            ELSE IF ns.exc # "none" THEN ns
            ELSE Value(<<n.val>> \o ns.val)

DotRst == <<".", "r", "s", "t">>

\* get_version_key without its except clause
get_version_key_uncaught(filename) == ints(split(remove(filename, DotRst), <<".">>))

get_version_key(filename) ==
    LET key == ints(split(remove(filename, DotRst), <<".">>))
    IN IF key.exc = "ValueError" THEN Value(<<0, 0, 0>>) ELSE key

\* The file names the function is applied to: a text, followed or not by
\* '.rst', followed by a text.
MaxNameLen == 2
NameChars == {"0", "1", ".", "-", "_", " ", "x"}
Filenames ==
    {a \o e \o b : a \in Texts(NameChars, MaxNameLen),
                   e \in {<<>>, DotRst},
                   b \in Texts({"1", ".", "x"}, MaxNameLen)}

Called(fn, args) == [fn |-> fn, args |-> args, returned |-> FALSE]
Returned(result) == [call EXCEPT !.returned = TRUE] @@ [result |-> result]

VersionInit ==
    /\ AtRest
    /\ changelog_history_file = Absent /\ summaries_file = Absent
    /\ full_history_data = Absent /\ summaries_data = Absent
    /\ months_var = <<"1">> /\ agg_text = <<>>
    /\ call \in {Called("get_version_key", <<f>>) : f \in Filenames}

get_version_key_returns ==
    /\ call.fn = "get_version_key" /\ ~call.returned
    /\ call' = Returned(get_version_key(call.args[1]))
    /\ UNCHANGED <<rest, files, full_history_data, summaries_data, months_var, agg_text>>

VersionNext == get_version_key_returns

VersionSpec == VersionInit /\ [][VersionNext]_vars

(***************************************************************************)
(* compute_cutoff_date.  A datetime is its year, month, day and time of    *)
(* day (in seconds).  Python's // and % by 12 round towards minus          *)
(* infinity, as \div and % do.                                             *)
(***************************************************************************)
MINYEAR == 1
MAXYEAR == 9999

IsLeap(y) == y % 4 = 0 /\ (y % 100 # 0 \/ y % 400 = 0)

DaysInMonth(y, m) ==
    IF m = 2 THEN (IF IsLeap(y) THEN 29 ELSE 28)
    ELSE IF m \in {4, 6, 9, 11} THEN 30 ELSE 31

\* datetime(year, month, day): midnight of that day, or ValueError
datetime(year, month, day) ==
    IF /\ year \in MINYEAR..MAXYEAR
       /\ month \in 1..12
       /\ day \in 1..DaysInMonth(year, month)
      THEN Value([year |-> year, month |-> month, day |-> day, time |-> 0])
      ELSE Raise("ValueError")

\* a <= b on datetimes
Before(a, b) ==
    \/ a.year < b.year
    \/ a.year = b.year /\ a.month < b.month
    \/ a.year = b.year /\ a.month = b.month /\ a.day < b.day
    \/ a.year = b.year /\ a.month = b.month /\ a.day = b.day /\ a.time <= b.time

\* the day of the cutoff, not clamped
target_day_unclamped(now) == now.day

\* 'target_day = min(now.day, 28)'
target_day(now) == IF now.day < 28 THEN now.day ELSE 28

\* months // 12 rounding towards zero
years_to_subtract_truncated(months) ==
    IF months >= 0 THEN months \div 12 ELSE 0 - ((0 - months) \div 12)

\* 'years_to_subtract = months // 12'
years_to_subtract(months) == months \div 12

\* the cutoff without the borrow from the year when the month wraps
compute_cutoff_date_no_borrow(months, now) ==
    LET month == now.month - (months % 12)
    IN datetime(now.year - years_to_subtract(months),
                IF month <= 0 THEN month + 12 ELSE month, target_day(now))

compute_cutoff_date(months, now) ==
    LET months_to_subtract_from_current == months % 12
        year == now.year - years_to_subtract(months)
        month == now.month - months_to_subtract_from_current
        target_year == IF month <= 0 THEN year - 1 ELSE year
        target_month == IF month <= 0 THEN month + 12 ELSE month
    IN datetime(target_year, target_month, target_day(now))

\* The arguments: the months around zero, and the days at the start and at
\* the end of a month, in years at both ends of the calendar and in between.
MaxMonths == 25
Months == (0 - MaxMonths)..MaxMonths
Years == {MINYEAR, MINYEAR + 1, 2023, 2024, MAXYEAR - 1, MAXYEAR}
Nows ==
    {[year |-> y, month |-> m, day |-> d, time |-> t] :
        y \in Years, m \in 1..12, d \in {1, 27, 28, 29, 31}, t \in {0, 1}}

CutoffInit ==
    /\ AtRest
    /\ changelog_history_file = Absent /\ summaries_file = Absent
    /\ full_history_data = Absent /\ summaries_data = Absent
    /\ months_var = <<"1">> /\ agg_text = <<>>
    /\ call \in {Called("compute_cutoff_date", <<months, now>>) :
                    months \in Months,
                    now \in {n \in Nows : n.day <= DaysInMonth(n.year, n.month)}}

compute_cutoff_date_returns ==
    /\ call.fn = "compute_cutoff_date" /\ ~call.returned
    /\ call' = Returned(compute_cutoff_date(call.args[1], call.args[2]))
    /\ UNCHANGED <<rest, files, full_history_data, summaries_data, months_var, agg_text>>

CutoffNext == compute_cutoff_date_returns

CutoffSpec == CutoffInit /\ [][CutoffNext]_vars

(***************************************************************************)
(* generate_agg_list, the handler of the 'Generate List' button.  A record *)
(* of full_history_data is <<date, hash, message>>, each a text.           *)
(***************************************************************************)
\* str(n) of a natural number, and of an integer
RECURSIVE digits(_)
digits(n) == IF n < 10 THEN <<DigitChars[n + 1]>>
             ELSE digits(n \div 10) \o <<DigitChars[(n % 10) + 1]>>

str(n) == IF n < 0 THEN <<"-">> \o digits(0 - n) ELSE digits(n)

\* n in at least 'width' digits
RECURSIVE zfill(_, _)
zfill(s, width) == IF Len(s) >= width THEN s ELSE zfill(<<"0">> \o s, width)

\* the date as 'git log --date=short' writes it
isodate(y, m, d) ==
    zfill(digits(y), 4) \o <<"-">> \o zfill(digits(m), 2) \o <<"-">> \o zfill(digits(d), 2)

\* datetime.strptime(s, "%Y-%m-%d"): four digits, one or two digits, one or
\* two digits, and the date must exist
strptime(s) ==
    LET p == split(s, <<"-">>)
    IN IF /\ Len(p) = 3
          /\ Len(p[1]) = 4 /\ \A i \in 1..4 : IsDigit(p[1][i])
          /\ \A k \in 2..3 : Len(p[k]) \in 1..2 /\ \A i \in 1..Len(p[k]) : IsDigit(p[k][i])
         THEN datetime(decimal(p[1], 0), decimal(p[2], 0), decimal(p[3], 0))
         ELSE Raise("ValueError")

\* the comparison with the cutoff, inverted
NotAfterCutoff(date, cutoff) == Before(date, cutoff)

\* 'datetime.strptime(date_str, "%Y-%m-%d") >= cutoff'
InRange(date, cutoff) == Before(cutoff, date)

\* f"{date_str} | {msg} ({h})"
Row(rec) == rec[1] \o <<" ", "|", " ">> \o rec[3] \o <<" ", "(">> \o rec[2] \o <<")">>

\* a loop that the first record whose date does not parse ends
RECURSIVE Rows_aborting(_, _)
Rows_aborting(recs, cutoff) ==
    IF recs = <<>> THEN <<>>
    ELSE LET date == strptime(Head(recs)[1])
         IN IF date.exc # "none" THEN <<>>
            ELSE (IF InRange(date.val, cutoff) THEN <<Row(Head(recs))>> ELSE <<>>)
                 \o Rows_aborting(Tail(recs), cutoff)

\* the rows of the records whose date parses and is in range, in order
RECURSIVE Rows(_, _)
Rows(recs, cutoff) ==
    IF recs = <<>> THEN <<>>
    ELSE LET date == strptime(Head(recs)[1])
         IN (IF date.exc = "none" /\ InRange(date.val, cutoff)
               THEN <<Row(Head(recs))>> ELSE <<>>)
            \o Rows(Tail(recs), cutoff)

\* the two lines above the rows
Header(months) ==
    <<<<"Mesa History - Last ", str(months), " Months">>, <<"-", 60>>>>

\* the handler, with datetime.now() = now: what it shows in a dialog (if
\* anything), the lines it puts into the text widget and the status it logs
generate_agg_list(now) ==
    /\ root_exists /\ ui.at = "idle"
    /\ call = NoCall
    /\ LET months == int(months_var)
           cutoff == compute_cutoff_date(months.val, now)
           rows == Rows(full_history_data, cutoff.val)
           dialog == IF months.exc # "none" THEN "Input Error"
                     ELSE IF cutoff.exc # "none" THEN "Generation Error"
                     ELSE "none"
       IN /\ call' = [fn |-> "generate_agg_list", args |-> <<now>>,
                      returned |-> TRUE, result |-> dialog]
          /\ IF dialog = "none"
               THEN /\ agg_text' = Header(months.val) \o rows
                    /\ after_queue' =
                         Post(after_queue, <<Status(0, <<"Generated ", Len(rows), " entries.">>)>>)
               ELSE UNCHANGED <<agg_text, after_queue>>
    /\ UNCHANGED <<env, files, data, widgets, ui, root_exists, workers, nthreads, months_var>>

\* The histories, the texts of the spinbox and the clock readings; the text
\* widget is empty or holds a list generated earlier.
MaxRecords == 2
Word == <<"f", "i", "x">>
Hash == <<"a", "1">>
Dates == {isodate(2024, 1, 1), isodate(2024, 3, 1), isodate(2024, 2, 28),
          isodate(2023, 3, 28), isodate(2024, 2, 30), Word,
          <<"2", "0", "2", "4", "-", "3", "-", "1">>}
Histories == UNION {[1..k -> {<<d, Hash, Word>> : d \in Dates}] : k \in 0..MaxRecords}
MonthsTexts == {<<"1">>, <<"3">>, <<"1", "2">>, <<"0">>, <<"-", "1">>, <<" ", "2">>,
                <<"x">>, <<>>, <<"1", ".", "5">>, <<"9", "9", "9", "9", "9">>}
AggNows == {[year |-> 2024, month |-> 3, day |-> 31, time |-> 1],
            [year |-> 2024, month |-> 3, day |-> 1, time |-> 0],
            [year |-> 2024, month |-> 1, day |-> 15, time |-> 1]}

AggInit ==
    /\ AtRest
    /\ changelog_history_file = Absent /\ summaries_file = Absent
    /\ full_history_data \in Histories
    /\ summaries_data = <<>>
    /\ months_var \in MonthsTexts
    /\ agg_text \in {<<>>, Header(3)}
    /\ call = NoCall

AggNext ==
    \/ \E now \in AggNows : generate_agg_list(now)
    \/ set_status

AggSpec == AggInit /\ [][AggNext]_vars

(***************************************************************************)
(* load_data and load_summaries on the text of the cache files.  Here a    *)
(* cache file is [exists |-> FALSE], or its lines (history) or its text    *)
(* (summaries); the record list is a sequence and the release mapping a    *)
(* function from version texts to bodies.                                  *)
(***************************************************************************)
Missing == [exists |-> FALSE]
HistoryFile(lines) == [exists |-> TRUE, lines |-> lines]
SummariesFile(text) == [exists |-> TRUE, text |-> text]

IsHex(c) == IsDigit(c) \/ c \in {"a", "b", "c", "d", "e", "f"}

\* the last position of character c in s, 0 if none
RECURSIVE rfind(_, _, _)
rfind(s, c, i) == IF i = 0 THEN 0 ELSE IF s[i] = c THEN i ELSE rfind(s, c, i - 1)

\* the pattern with any characters but '(' between the last parentheses
primary_any_hash(line) ==
    LET n == Len(line)
        open == rfind(line, "(", n)
    IN IF /\ n >= 17
          /\ \A i \in {1, 2, 3, 4, 6, 7, 9, 10} : IsDigit(line[i])
          /\ line[5] = "-" /\ line[8] = "-"
          /\ SubSeq(line, 11, 13) = <<" ", "|", " ">>
          /\ line[n] = ")"
          /\ open >= 15 /\ line[open - 1] = " "
          /\ open + 1 <= n - 1
         THEN Value(<<SubSeq(line, 1, 10), SubSeq(line, 14, open - 2),
                      SubSeq(line, open + 1, n - 1)>>)
         ELSE Raise("no match")

\* re.search(r"^(\d{4}-\d{2}-\d{2}) \| (.*) \(([a-f0-9]+)\)$", line): the
\* groups <<date, message, hash>>, or no match.  The hash group cannot hold
\* a '(', so it starts after the last '(' of the line.
primary(line) ==
    LET n == Len(line)
        open == rfind(line, "(", n)
    IN IF /\ n >= 17
          /\ \A i \in {1, 2, 3, 4, 6, 7, 9, 10} : IsDigit(line[i])
          /\ line[5] = "-" /\ line[8] = "-"
          /\ SubSeq(line, 11, 13) = <<" ", "|", " ">>
          /\ line[n] = ")"
          /\ open >= 15 /\ line[open - 1] = " "
          /\ open + 1 <= n - 1
          /\ \A i \in (open + 1)..(n - 1) : IsHex(line[i])
         THEN Value(<<SubSeq(line, 1, 10), SubSeq(line, 14, open - 2),
                      SubSeq(line, open + 1, n - 1)>>)
         ELSE Raise("no match")

\* the body of the loop over the lines: the records (none or one) the line adds
parse_line(line) ==
    LET s == strip(line)
        match == primary(s)
        parts == split1(s, <<" ", "|", " ">>)
    IN IF s = <<>> THEN <<>>
       ELSE IF match.exc = "none"
         THEN <<<<match.val[1], match.val[3], match.val[2]>>>>
       ELSE IF Len(parts) = 2 THEN <<<<parts[1], <<"?">>, parts[2]>>>>
       ELSE <<>>

\* a loop that stops at the first line that is neither blank nor parseable
RECURSIVE parse_history_aborting(_)
parse_history_aborting(lines) ==
    IF lines = <<>> THEN <<>>
    ELSE IF strip(Head(lines)) # <<>> /\ parse_line(Head(lines)) = <<>> THEN <<>>
    ELSE parse_line(Head(lines)) \o parse_history_aborting(Tail(lines))

\* 'for line_num, line in enumerate(f, 1)'
RECURSIVE parse_history(_)
parse_history(lines) ==
    IF lines = <<>> THEN <<>>
    ELSE parse_line(Head(lines)) \o parse_history(Tail(lines))

\* the first position from i on whose character is not in C
skip(s, i, C) ==
    IF i > Len(s) THEN i
    ELSE CHOOSE j \in i..(Len(s) + 1) :
           /\ j > Len(s) \/ s[j] \notin C
           /\ \A k \in i..(j - 1) : s[k] \in C

\* the last newline of s[i..j-1], 0 if none
last_newline(s, i, j) ==
    LET at == {k \in i..(j - 1) : s[k] = "\n"}
    IN IF at = {} THEN 0 ELSE CHOOSE k \in at : \A m \in at : m <= k

\* 'RELEASE:' under re.IGNORECASE
Keyword == <<"R", "E", "L", "E", "A", "S", "E", ":">>
upper(c) ==
    CASE c = "r" -> "R" [] c = "e" -> "E" [] c = "l" -> "L"
      [] c = "a" -> "A" [] c = "s" -> "S" [] OTHER -> c
IsKeyword(s, i) ==
    /\ i + Len(Keyword) - 1 <= Len(s)
    /\ \A k \in 1..Len(Keyword) : upper(s[i + k - 1]) = Keyword[k]

RuleWidth == 50

\* a delimiter that has to be as wide as the compiler writes it
delimiter_fixed(s, i) == IF skip(s, i, {"="}) = i + RuleWidth THEN i + RuleWidth ELSE i

\* '=+' at position i: the position after the run of '=' (i if there is none)
delimiter(s, i) == skip(s, i, {"="})

\* RELEASE_NOTES_PATTERN matched at position p of s (re.MULTILINE):
\*   ^\s*=+\s*\n\s*RELEASE:\s*([\d\.]+)\s*\n\s*=+\s*\n
\* Each \s* takes a whole run of white space, and where a \n has to follow
\* it gives back up to the last newline of the run.  end: the position
\* after the match, 0 if there is none.
match_at(s, p) ==
    LET a == skip(s, p, Space)
        b == delimiter(s, a)
        c == skip(s, b, Space)
        d == c + Len(Keyword)
        e == skip(s, d, Space)
        f == skip(s, e, {"0", "1", "2", "3", "4", "5", "6", "7", "8", "9", "."})
        g == skip(s, f, Space)
        h == delimiter(s, g)
        k == skip(s, h, Space)
    IN IF /\ p = 1 \/ s[p - 1] = "\n"
          /\ b > a
          /\ last_newline(s, b, c) # 0
          /\ IsKeyword(s, c)
          /\ f > e
          /\ last_newline(s, f, g) # 0
          /\ h > g
          /\ last_newline(s, h, k) # 0
         THEN [start |-> p, end |-> last_newline(s, h, k) + 1, version |-> SubSeq(s, e, f - 1)]
         ELSE [start |-> p, end |-> 0]

\* the positions of s at which the pattern matches
starts(s) == {p \in 1..Len(s) : match_at(s, p).end # 0}

\* the leftmost match that starts at 'from' or later ('at': the positions
\* at which the pattern matches)
search(s, at, from) ==
    LET later == {p \in at : p >= from}
    IN IF later = {} THEN [start |-> Len(s) + 1, end |-> 0]
       ELSE match_at(s, CHOOSE p \in later : \A q \in later : p <= q)

\* The matches the split cuts the text at: each is the leftmost match that
\* starts where the one before it ended, or later.  cuts gives the first n
\* of them from position 'from' on (the first half of them, then the
\* others), and the position where the last of them ended.
RECURSIVE cuts(_, _, _, _)
cuts(s, at, from, n) ==
    IF n = 0 \/ from > Len(s) THEN [found |-> <<>>, from |-> from]
    ELSE IF n = 1
      THEN LET m == search(s, at, from)
           IN IF m.end = 0 THEN [found |-> <<>>, from |-> Len(s) + 1]
              ELSE [found |-> <<m>>, from |-> m.end]
    ELSE LET left == cuts(s, at, from, n \div 2)
             right == cuts(s, at, left.from, n - n \div 2)
         IN [found |-> left.found \o right.found, from |-> right.from]

\* pattern.split(content), from position 'from' on: the text before the
\* first match, then for each match its group and the text behind it
resplit(s, from) ==
    LET at == starts(s)
        ms == cuts(s, at, from, Cardinality(at)).found
        n == Len(ms)
    IN [i \in 1..(2 * n + 1) |->
          IF i % 2 = 0 THEN ms[i \div 2].version
          ELSE SubSeq(s, IF i = 1 THEN from ELSE ms[i \div 2].end,
                         IF i = 2 * n + 1 THEN Len(s) ELSE ms[i \div 2 + 1].start - 1)]

\* 'for i in range(1, len(parts), 2): self.summaries_data[version] = text'
\* (parts[2], parts[3] are the first version and its text here): each
\* version is mapped to the text behind its last occurrence
releases(parts, acc) ==
    LET n == (Len(parts) - 1) \div 2
        last(v) == CHOOSE k \in 1..n :
                     /\ strip(parts[2 * k]) = v
                     /\ \A m \in (k + 1)..n : strip(parts[2 * m]) # v
        new == [v \in {strip(parts[2 * k]) : k \in 1..n} |-> parts[2 * last(v) + 1]]
    IN IF n <= 0 THEN acc ELSE new @@ acc

\* a load that keeps the records it had
load_history_appending(old, f) ==
    IF f.exists THEN old \o parse_history(f.lines) ELSE old

\* 'self.full_history_data = []', then the loop if the file exists
load_history(old, f) ==
    LET reset == <<>>
    IN IF f.exists THEN reset \o parse_history(f.lines) ELSE reset

\* 'self.summaries_data = {}', then the split if the file exists
load_releases(old, f) ==
    LET reset == <<>>
    IN IF f.exists THEN releases(resplit(f.text, 1), reset) ELSE reset

\* The history caches: up to MaxLines lines out of well-formed lines, lines
\* with a part missing or malformed, and blank lines.
MaxLines == 3
Text(date, sep, msg, tail) == date \o sep \o msg \o tail
Bar == <<" ", "|", " ">>
HashTail == <<" ", "(">> \o Hash \o <<")">>
Lines ==
    {Text(isodate(2023, 1, 1), Bar, Word, HashTail),
     Text(<<" ">> \o isodate(2023, 1, 2), Bar, Word \o HashTail, HashTail \o <<" ">>),
     Text(isodate(2023, 1, 3), Bar, <<>>, HashTail),
     Text(isodate(2023, 1, 4), Bar, Word, <<" ", "(", "x", ")">>),
     Text(isodate(2023, 1, 5), Bar, Word, <<"(">> \o Hash \o <<")">>),
     Text(isodate(2023, 1, 6), <<"|">>, Word, HashTail),
     Text(<<"2", "3", "-", "1", "-", "7">>, Bar, Word \o Bar \o Word, HashTail),
     Text(isodate(2023, 1, 8), Bar, <<>>, <<>>),
     Text(<<>>, Bar, Word, <<>>),
     Word,
     <<>>,
     <<" ", "\t">>}
HistoryFiles == {Missing} \cup {HistoryFile(ls) : ls \in UNION {[1..k -> Lines] : k \in 0..MaxLines}}

\* '=' * n
rule(n) == [i \in 1..n |-> "="]

SampleSummaries ==
    {Missing,
     SummariesFile(Word \o <<"\n">> \o rule(2) \o <<"\n">> \o Keyword \o <<" ", "1", ".", "2", "\n">>
                   \o rule(3) \o <<"\n">> \o Word \o <<"\n">>)}

\* what the memory may hold before a load
OldRecords == {<<>>, <<<<isodate(2020, 1, 1), Hash, Word>>>>}
OldReleases == {<<>>, (<<"9">> :> Word)}

LoadInit ==
    /\ AtRest
    /\ changelog_history_file \in HistoryFiles
    /\ summaries_file \in SampleSummaries
    /\ full_history_data \in OldRecords
    /\ summaries_data \in OldReleases
    /\ months_var = <<"1">> /\ agg_text = <<>>
    /\ call = NoCall

\* self.load_data(), called on the UI thread; no worker is running, so
\* the files do not change during the call.  call.args: how many loads
\* there have been; call.old: what the memory held before the first one;
\* call.result: what the first one left in memory.
load_data_returns ==
    /\ root_exists /\ ui.at = "idle"
    /\ call = NoCall \/ (call.fn = "load_data" /\ call.args = 1)
    /\ full_history_data' = load_history(full_history_data, changelog_history_file)
    /\ summaries_data' = load_releases(summaries_data, summaries_file)
    /\ call' = IF call = NoCall
                 THEN [fn |-> "load_data", args |-> 1, returned |-> TRUE,
                       old |-> <<full_history_data, summaries_data>>,
                       result |-> <<full_history_data', summaries_data'>>]
                 ELSE [call EXCEPT !.args = 2]
    /\ UNCHANGED <<rest, files, months_var, agg_text>>

LoadNext == load_data_returns

LoadSpec == LoadInit /\ [][LoadNext]_vars

(***************************************************************************)
(* generate_summaries_python on the text of the release-notes files, and   *)
(* load_summaries on what it wrote.  The release-notes directory is        *)
(* [exists |-> FALSE], or the files os.listdir returns, in its order, each *)
(* with its name, whether it can be read, and its content.                 *)
(***************************************************************************)
NotesDir(fs) == [exists |-> TRUE, files |-> fs]

\* 'f.endswith(".rst") and re.match(r"^\d+\.\d+(\.\d+)?\.rst$", f)'
IsVersionFile(f) ==
    /\ EndsWith(f, DotRst)
    /\ LET segs == split(SubSeq(f, 1, Len(f) - Len(DotRst)), <<".">>)
       IN /\ Len(segs) \in {2, 3}
          /\ \A i \in 1..Len(segs) :
               segs[i] # <<>> /\ \A k \in 1..Len(segs[i]) : IsDigit(segs[i][k])

\* a < b on lists of integers
RECURSIVE key_less(_, _)
key_less(a, b) ==
    IF b = <<>> THEN FALSE
    ELSE IF a = <<>> THEN TRUE
    ELSE IF Head(a) # Head(b) THEN Head(a) < Head(b)
    ELSE key_less(Tail(a), Tail(b))

\* an order that puts the later of two files with the same key first
sorts_before_unstable(x, y) ==
    key_less(y.key, x.key) \/ (x.key = y.key /\ x.at > y.at)

\* files.sort(key=version_key, reverse=True), on a file's place in the
\* listing and its key: x comes before y if its key is greater, or the
\* same and it was listed before y
sorts_before(x, y) ==
    key_less(y.key, x.key) \/ (x.key = y.key /\ x.at < y.at)

\* the sorted list: in each place the file that this many files come before
sort_desc(fs) ==
    LET keyed == {[at |-> i, key |-> get_version_key(fs[i].name).val] : i \in 1..Len(fs)}
        ahead(y) == Cardinality({x \in keyed : sorts_before(x, y)})
    IN [k \in 1..Len(fs) |-> fs[(CHOOSE y \in keyed : ahead(y) = k - 1).at]]

TopCount == 50

\* 'top_50 = files[:50]' of the version-named files, sorted
top_50(dir) ==
    LET named == SelectSeq(dir.files, LAMBDA f : IsVersionFile(f.name))
        sorted == sort_desc(named)
    IN SubSeq(sorted, 1, IF Len(sorted) < TopCount THEN Len(sorted) ELSE TopCount)

\* "MESA RELEASE NOTES COMPILATION\n\n"
Preamble ==
    <<"M", "E", "S", "A", " ", "R", "E", "L", "E", "A", "S", "E", " ",
      "N", "O", "T", "E", "S", " ", "C", "O", "M", "P", "I", "L", "A", "T", "I", "O", "N",
      "\n", "\n">>

\* f"Error reading file {path}: {e}\n", with the path and the error abridged
ErrorNote(name) == <<"E", "r", "r", "o", "r", " ">> \o name \o <<"\n">>

\* what the loop writes for one file: the header, and the file's content or
\* the note that it could not be read
Block(f) ==
    <<"\n">> \o rule(RuleWidth) \o <<"\n", " ">> \o Keyword \o <<" ">>
    \o remove(f.name, DotRst) \o <<"\n">> \o rule(RuleWidth) \o <<"\n", "\n">>
    \o (IF f.readable THEN f.content ELSE ErrorNote(f.name))

\* a loop that the first file that cannot be read ends, after its header
RECURSIVE Blocks_aborting(_)
Blocks_aborting(fs) ==
    LET bad == {i \in 1..Len(fs) : ~fs[i].readable}
        first == CHOOSE i \in bad : \A j \in bad : i <= j
        half == Len(fs) \div 2
    IN IF fs = <<>> THEN <<>>
       ELSE IF bad # {}
         THEN Blocks_aborting(SubSeq(fs, 1, first - 1))
              \o Block([fs[first] EXCEPT !.readable = TRUE])
       ELSE IF Len(fs) = 1 THEN Block(fs[1])
       ELSE Blocks_aborting(SubSeq(fs, 1, half))
            \o Blocks_aborting(SubSeq(fs, half + 1, Len(fs)))

\* 'for f in top_50:' the blocks of the files one after the other (those of
\* the first half of the files, then those of the second half)
RECURSIVE Blocks(_)
Blocks(fs) ==
    IF fs = <<>> THEN <<>>
    ELSE IF Len(fs) = 1 THEN Block(fs[1])
    ELSE LET half == Len(fs) \div 2
         IN Blocks(SubSeq(fs, 1, half)) \o Blocks(SubSeq(fs, half + 1, Len(fs)))

\* the summaries cache after generate_summaries_python: untouched if the
\* directory is missing, else the preamble and the blocks
compiled(old, dir) ==
    IF dir.exists THEN SummariesFile(Preamble \o Blocks(top_50(dir))) ELSE old

\* generate_summaries_python, run on its own: call.args[1] is the
\* release-notes directory, call.returned says that the function has run.
generate_summaries_python_returns ==
    /\ call.fn = "generate_summaries_python" /\ ~call.returned
    /\ summaries_file' = compiled(summaries_file, call.args[1])
    /\ call' = [call EXCEPT !.returned = TRUE, !.parsed = FALSE]
    /\ UNCHANGED <<rest, changelog_history_file, full_history_data, summaries_data,
                   months_var, agg_text>>

\* self.load_summaries() on the UI thread; call.parsed says that the
\* mapping is that of the file as it is now.
load_summaries_returns ==
    /\ call.fn = "generate_summaries_python" /\ ~call.parsed
    /\ summaries_data' = load_releases(summaries_data, summaries_file)
    /\ call' = [call EXCEPT !.parsed = TRUE]
    /\ UNCHANGED <<rest, files, full_history_data, months_var, agg_text>>

\* The release-notes directories: up to MaxFiles files, with names that are
\* versions and names that are not, and contents with and without blank
\* lines at either end.
MaxFiles == 2
NoteNames == {<<"1", ".", "2">> \o DotRst, <<"1", ".", "1", "0">> \o DotRst,
              <<"2", ".", "0", ".", "1">> \o DotRst, Word \o DotRst}
NoteTexts == {<<>>, Word, Word \o <<"\n">>, Word \o <<"\n", "\n">>,
              <<"\n">> \o Word \o <<"\n">>, <<" ">> \o Word \o <<"\n">>,
              Word \o <<"\n", "=", "=", "\n">> \o Word \o <<"\n">>}
NoteFiles == {[name |-> n, readable |-> TRUE, content |-> t] : n \in NoteNames, t \in NoteTexts}
            \cup {[name |-> n, readable |-> FALSE, content |-> <<>>] : n \in NoteNames}
NotesDirs ==
    {Missing} \cup
    {NotesDir(fs) : fs \in {s \in UNION {[1..k -> NoteFiles] : k \in 0..MaxFiles} :
                              \A i, j \in 1..Len(s) : i # j => s[i].name # s[j].name}}

\* Directories with as many version-named files as are compiled, and with
\* more: '1.1.rst', '1.2.rst', ... in this order, then '01.1.rst',
\* '01.2.rst', ..., whose keys are those of the first files; a file that is
\* not version-named comes first.
BigNotes(n) ==
    [i \in 1..(n + 1) |->
        [name |-> (IF i = 1 THEN Word
                   ELSE IF i < TopCount - 8 THEN <<"1", ".">> \o digits(i - 1)
                   ELSE <<"0", "1", ".">> \o digits(i - (TopCount - 9))) \o DotRst,
         readable |-> TRUE,
         content |-> Word \o <<"\n">>]]
BigDirs == {NotesDir(BigNotes(n)) : n \in {TopCount, TopCount + 2}}

\* The documents load_summaries is given besides: text, then up to MaxBlocks
\* headers, each followed by a body.  A header is a line of w1 '=', the
\* 'RELEASE:' line and a line of w2 '='; 'lead' and 'trail' are the white
\* space put at the start and at the end of its lines and around the
\* version.  own: the header has an opening line of its own (if not, the
\* closing line of the header before it is its opening line).  A body may
\* begin or end with a blank line.  The last line of a document may lack
\* its newline.
MaxBlocks == 2
Pads == {<<>>, <<" ">>, <<" ", "\t">>}
Headers ==
    [w1 : {1, 3}, w2 : {1, 2}, version : {<<"1", ".", "2">>, <<"2", ".", "0">>},
     body : {<<>>, Word \o <<"\n">>, <<"\n">> \o Word \o <<"\n">>, Word \o <<"\n", "\n">>},
     own : BOOLEAN]
Documents ==
    {d \in [before : {<<>>, Word \o <<"\n">>}, lead : Pads, trail : Pads,
            blocks : UNION {[1..k -> Headers] : k \in 0..MaxBlocks},
            newline : BOOLEAN] :
        /\ \A i \in 1..Len(d.blocks) :
             ~d.blocks[i].own => i > 1 /\ d.blocks[i - 1].body = <<>>
        /\ ~d.newline => d.blocks # <<>> /\ d.blocks[Len(d.blocks)].body = <<>>}

\* the text of a document
RECURSIVE Render(_, _)
Render(d, i) ==
    IF i > Len(d.blocks) THEN <<>>
    ELSE LET b == d.blocks[i]
             end == IF i = Len(d.blocks) /\ ~d.newline THEN <<>> ELSE <<"\n">>
         IN (IF b.own THEN d.lead \o rule(b.w1) \o d.trail \o <<"\n">> ELSE <<>>)
            \o d.lead \o Keyword \o d.trail \o b.version \o d.trail \o <<"\n">>
            \o d.lead \o rule(b.w2) \o d.trail \o end
            \o b.body \o Render(d, i + 1)

NoDocument == [before |-> <<>>, lead |-> <<>>, trail |-> <<>>, blocks |-> <<>>, newline |-> TRUE]

SummariesInit ==
    /\ AtRest
    /\ changelog_history_file = Missing
    /\ full_history_data = <<>>
    /\ summaries_data = <<>>
    /\ months_var = <<"1">> /\ agg_text = <<>>
    /\ \E dir \in NotesDirs \cup BigDirs, d \in Documents :
         /\ dir = Missing \/ d = NoDocument
         /\ summaries_file =
              IF d = NoDocument /\ dir # Missing THEN Missing
              ELSE SummariesFile(d.before \o Render(d, 1))
         /\ call = [fn |-> "generate_summaries_python", args |-> <<dir, d>>,
                    returned |-> FALSE, parsed |-> FALSE]

SummariesNext ==
    \/ generate_summaries_python_returns
    \/ load_summaries_returns

SummariesSpec == SummariesInit /\ [][SummariesNext]_vars

(***************************************************************************)
(* filter_history, the handler of a write to the search box, and the       *)
(* update_tree it ends with.  tree holds the rows of the table here.       *)
(***************************************************************************)
Uppercase == <<"A", "B", "C", "D", "E", "F", "G", "H", "I", "J", "K", "L", "M",
               "N", "O", "P", "Q", "R", "S", "T", "U", "V", "W", "X", "Y", "Z">>
Lowercase == <<"a", "b", "c", "d", "e", "f", "g", "h", "i", "j", "k", "l", "m",
               "n", "o", "p", "q", "r", "s", "t", "u", "v", "w", "x", "y", "z">>

\* str.lower() on ASCII text
lower(s) ==
    [i \in 1..Len(s) |->
        IF \E k \in 1..Len(Uppercase) : Uppercase[k] = s[i]
          THEN Lowercase[CHOOSE k \in 1..Len(Uppercase) : Uppercase[k] = s[i]]
          ELSE s[i]]

\* 'query in text'
contains(text, query) == find(text, query, 1) # 0

\* a test that looks into the date as well
matches_any_field(item, query) ==
    \E k \in 1..3 : contains(lower(item[k]), query)

\* 'query in str(item[1]).lower() or query in str(item[2]).lower()'
matches(item, query) ==
    contains(lower(item[2]), query) \/ contains(lower(item[3]), query)

\* 'for item in data[:5000]'
TreeRows == 5000

\* update_tree(data) with the table present: the rows the table has afterwards
shown(rows) == SubSeq(rows, 1, IF Len(rows) < TreeRows THEN Len(rows) ELSE TreeRows)

\* the handler, with search_var.get() = text
filter_history(text) ==
    /\ root_exists /\ ui.at = "idle"
    /\ LET query == lower(text)
       IN tree' = IF query = <<>>
                    THEN shown(full_history_data)
                    ELSE shown(SelectSeq(full_history_data, LAMBDA item : matches(item, query)))
    /\ call' = [fn |-> "filter_history", args |-> <<text>>, returned |-> TRUE]
    /\ UNCHANGED <<env, files, full_history_data, summaries_data, widgets, after_queue,
                   ui, root_exists, workers, nthreads, months_var, agg_text>>

\* The histories: up to MaxRecords records, and histories with more records
\* than the table shows; the texts typed into the search box.
FilterRecords ==
    {<<isodate(2023, 1, 1), h, m>> :
        h \in {<<"a", "1">>, <<"f", "1">>, <<"?">>},
        m \in {<<"F", "i", "x">>, <<"a", "b">>, <<"2", "0">>}}
LongHistories ==
    {[i \in 1..(TreeRows + 1) |->
         <<isodate(2023, 1, 1), <<"a", "1">>, IF i <= n THEN <<"F", "i", "x">> ELSE <<"a", "b">>>>] :
        n \in {0, 1, TreeRows + 1}}
Queries == {<<>>, <<"f">>, <<"F", "I">>, <<"2", "0">>, <<"0", "1">>, <<"1">>, <<"z">>, <<"b">>}

FilterInit ==
    /\ git_path = "git" /\ mesa_dir = TRUE
    /\ changelog_history_file = Missing /\ summaries_file = Missing
    /\ full_history_data \in
         UNION {[1..k -> FilterRecords] : k \in 0..MaxRecords} \cup LongHistories
    /\ summaries_data = <<>>
    /\ tree = shown(full_history_data)
    /\ refresh_btn = NORMAL /\ download_btn = NORMAL
    /\ status_label = "Ready" /\ progress_bar = "hidden"
    /\ after_queue = <<>> /\ ui = UiIdle /\ root_exists = TRUE
    /\ workers = [w \in Runs |-> NoThread] /\ nthreads = 0
    /\ months_var = <<"1">> /\ agg_text = <<>>
    /\ call = NoCall

FilterNext == \E text \in Queries : filter_history(text)

FilterSpec == FilterInit /\ [][FilterNext]_vars

(***************************************************************************)
(* Vocabulary of the properties.                                           *)
(***************************************************************************)
Started(w) == workers[w].kind # "none"

\* The run is in a phase: it entered one and has no outcome yet.
Running(w) == workers[w].phases # <<>> /\ workers[w].outcome = "none"

\* The run has a cache file open for writing.
WritingHistory(w) == At(w, "logging")
WritingSummaries(w) == At(w, "writing_summaries")

\* The button whose handler started the run.
TriggerBtn(w) == IF workers[w].kind = "refresh" THEN refresh_btn ELSE download_btn

\* The callbacks that undo what the run's handler did to the controls.
RestoreNames(w) ==
    IF workers[w].kind = "refresh"
      THEN {"enable_refresh_btn", "stop_and_hide"}
      ELSE {"enable_download_btn", "enable_refresh_btn", "stop_and_hide"}

Restored(w) == RestoreNames(w) \subseteq workers[w].ran

SyncPhases == {"Cloning", "Pulling"}

\* s is a prefix of t
IsPrefix(s, t) == Len(s) <= Len(t) /\ \A i \in 1..Len(s) : s[i] = t[i]

\* how many of the elements of s are in S
CountIn(s, S) == Cardinality({i \in 1..Len(s) : s[i] \in S})

(***************************************************************************)
(* C1. At most one sync worker is Running at any time, so two workers      *)
(* never have a cache file open for writing at once.  The code does not    *)
(* keep this: start_refresh leaves the download button enabled.            *)
(***************************************************************************)
C1_AtMostOneWorker == Cardinality({w \in Runs : Running(w)}) <= 1

(***************************************************************************)
(* C2. A read of a cache file by load_data / load_summaries never overlaps *)
(* a worker's write of that same file.  (The claim's second half, that no  *)
(* worker is anywhere between opening the history cache and the end of     *)
(* generate_summaries_python during a read, is stronger still.)            *)
(***************************************************************************)
C2_NoReadDuringWrite ==
    /\ ui.at = "read_history" => \A w \in Runs : ~WritingHistory(w)
    /\ ui.at = "read_summaries" => \A w \in Runs : ~WritingSummaries(w)

(***************************************************************************)
(* C3. On every exit path of a worker, the buttons its handler disabled    *)
(* are eventually re-enabled and the progress bar is eventually stopped    *)
(* and hidden, as long as the window exists and the main loop runs the     *)
(* queue (FairSpec).                                                       *)
(***************************************************************************)
C3_ControlsRestored ==
    \A w \in Runs : (At(w, "done")) ~> (~root_exists \/ Restored(w))

\* a run that failed in a subprocess has had its controls restored
C3_Witness ==
    \E w \in Runs :
        /\ workers[w].failed \in SyncPhases \cup {"GeneratingHistory"}
        /\ Restored(w)

(***************************************************************************)
(* C4. While a worker is Running, the button that started it is disabled   *)
(* (and the progress bar is not hidden: that half fails already because    *)
(* show_progress only schedules the bar).  Stated for the button alone.    *)
(***************************************************************************)
C4_TriggerDisabledWhileRunning ==
    \A w \in Runs : Running(w) => TriggerBtn(w) = DISABLED

(***************************************************************************)
(* C5. With git_path None a run fails at once with the 'git not found'     *)
(* error: no subprocess, no phase, no cache file opened or changed, no     *)
(* reload scheduled.                                                       *)
(***************************************************************************)
C5_NoGitFailsAtOnce ==
    git_path = "None" =>
        /\ changelog_history_file \in {Absent, OldCache}
        /\ summaries_file \in {Absent, OldCache}
        /\ \A w \in Runs :
             /\ workers[w].spawned = <<>>
             /\ workers[w].phases = <<>>
             /\ workers[w].wrote = {}
             /\ "load_data" \notin workers[w].sched
             /\ Started(w) /\ ~At(w, "start") =>
                  /\ workers[w].outcome = "Failed"
                  /\ {"Git not found.", "showerror"} \subseteq workers[w].sched

\* a download without git has ended and its error dialog was shown
C5_Witness ==
    /\ git_path = "None"
    /\ \E w \in Runs : At(w, "done") /\ "showerror" \in workers[w].ran

(***************************************************************************)
(* C6. A run in which a phase failed never ends in Succeeded: no           *)
(* 'complete' status, no reload.  The code does not keep this for          *)
(* CompilingNotes: generate_summaries_python swallows its errors.          *)
(***************************************************************************)
C6_FailedPhaseFailsRun ==
    \A w \in Runs :
        workers[w].failed # "none" =>
            /\ workers[w].outcome # "Succeeded"
            /\ CompleteStatus(workers[w].kind) \notin workers[w].sched
            /\ "load_data" \notin workers[w].sched

(***************************************************************************)
(* C7. After a run reached Succeeded, the UI thread reloads both caches    *)
(* and then refreshes the table; of the run's callbacks, the reload runs   *)
(* before the table refresh and before the re-enabling of the controls.    *)
(***************************************************************************)
C7_ReloadOrder ==
    \A w \in Runs :
        /\ "update_tree" \in workers[w].ran => "load_data" \in workers[w].ran
        /\ workers[w].outcome = "Succeeded"
             /\ workers[w].ran \cap RestoreNames(w) # {}
             => {"load_data", "update_tree"} \subseteq workers[w].ran
        /\ ui.run = w /\ ui.at # "idle" =>
             workers[w].ran \cap ({"update_tree"} \cup RestoreNames(w)) = {}

C7_ReloadThenRefresh ==
    /\ []C7_ReloadOrder
    /\ \A w \in Runs :
         (workers[w].outcome = "Succeeded")
             ~> (~root_exists \/ {"load_data", "update_tree"} \subseteq workers[w].ran)

\* a run succeeded, its reload and table refresh ran, and the table shows
\* what the run wrote
C7_Witness ==
    \E w \in Runs :
        /\ workers[w].outcome = "Succeeded"
        /\ {"load_data", "update_tree"} \subseteq workers[w].ran
        /\ Restored(w)
        /\ tree = [by |-> w, st |-> "complete"]

(***************************************************************************)
(* C8. The phases of a run come in the order clone-or-pull,                *)
(* GeneratingHistory, CompilingNotes, none twice, and a phase is entered   *)
(* only after every earlier one succeeded.                                 *)
(***************************************************************************)
C8_PhaseOrder ==
    \A w \in Runs :
        LET ph == workers[w].phases IN
        /\ \/ ph = <<>>
           \/ /\ ph[1] \in SyncPhases
              /\ IsPrefix(Tail(ph), <<"GeneratingHistory", "CompilingNotes">>)
        /\ \A i \in 1..Len(ph) : workers[w].failed = ph[i] => i = Len(ph)
        /\ Running(w) /\ ~At(w, "complete") =>
             workers[w].pc \in
                 (CASE ph[Len(ph)] = "Cloning" -> {"cloning", "open_history"}
                    [] ph[Len(ph)] = "Pulling" -> {"pulling", "open_history"}
                    [] ph[Len(ph)] = "GeneratingHistory" -> {"logging", "compile"}
                    [] OTHER -> {"writing_summaries"})

\* a run went through all three phases
C8_Witness ==
    \E w \in Runs :
        /\ Len(workers[w].phases) = 3
        /\ workers[w].outcome = "Succeeded"
        /\ workers[w].failed = "none"

(***************************************************************************)
(* C9. A run clones iff the mirror directory does not exist when it takes  *)
(* the decision, and pulls otherwise; a run that got past the git check    *)
(* invoked exactly one of clone and pull.                                  *)
(***************************************************************************)
C9_OneOfCloneAndPull ==
    \A w \in Runs :
        /\ CountIn(workers[w].spawned, {"clone", "pull"}) <= 1
        /\ Started(w) /\ ~At(w, "start") /\ git_path # "None" =>
             CountIn(workers[w].spawned, {"clone", "pull"}) = 1

C9_DecisionStep ==
    \A w \in Runs :
        At(w, "start") /\ workers'[w].pc \notin {"start", "none"} /\ git_path # "None" =>
            workers'[w].spawned = <<IF mesa_dir THEN "pull" ELSE "clone">>

C9_CloneIffNoMirror == []C9_OneOfCloneAndPull /\ [][C9_DecisionStep]_vars

\* a download pulled (the mirror existed) and a refresh cloned (it did not)
C9_Witness ==
    \E w, v \in Runs :
        /\ workers[w].kind = "download" /\ workers[w].spawned = <<"pull", "log">>
        /\ workers[v].kind = "refresh" /\ workers[v].spawned = <<"clone">>

(***************************************************************************)
(* C10. A failed run does not touch the cache files of later phases and    *)
(* rolls nothing back: after a clone/pull failure the run has written      *)
(* neither cache, after a log-extraction failure it has not written the    *)
(* summaries cache, and a history cache it left half written stays so.     *)
(***************************************************************************)
C10_LaterCachesUntouched ==
    \A w \in Runs :
        /\ workers[w].failed \in SyncPhases \cup {"GitCheck"} =>
             /\ workers[w].wrote = {}
             /\ changelog_history_file.by # w
             /\ summaries_file.by # w
        /\ workers[w].failed = "GeneratingHistory" =>
             /\ "summaries" \notin workers[w].wrote
             /\ summaries_file.by # w
             /\ changelog_history_file.by = w =>
                  changelog_history_file.st \in {"partial", "mixed"}

\* a pull failed with both caches of the earlier session in place, and the
\* run is over
C10_Witness ==
    \E w \in Runs :
        /\ workers[w].failed = "Pulling"
        /\ At(w, "done")
        /\ changelog_history_file = OldCache
        /\ summaries_file = OldCache

(***************************************************************************)
(* C11. After a run ended in Failed it invokes no further subprocess, and  *)
(* a thread is started only by a click (or by the answer to the start-up   *)
(* prompt); a run that is started begins at the clone-or-pull decision     *)
(* with nothing done, and a run that succeeds went through all three       *)
(* phases, whatever the runs before it did.                                *)
(***************************************************************************)
C11_CleanSlate ==
    \A w \in Runs :
        /\ workers[w].outcome = "Failed" => workers[w].pc \in {"finally", "done"}
        /\ At(w, "start") =>
              /\ workers[w].phases = <<>>
              /\ workers[w].spawned = <<>>
              /\ workers[w].wrote = {}
              /\ workers[w].outcome = "none"
        /\ workers[w].outcome = "Succeeded" =>
              /\ Len(workers[w].phases) = 3
              /\ workers[w].phases[1] \in SyncPhases
              /\ Len(workers[w].spawned) = 2

C11_NoRetryStep ==
    /\ \A w \in Runs :
          workers[w].outcome = "Failed" =>
              \/ workers'[w].spawned = workers[w].spawned
              \/ workers'[w] = NoThread
    /\ nthreads' # nthreads =>
          /\ start_refresh \/ start_download_mesa \/ prompt_download_mesa(TRUE)
          /\ nthreads' = nthreads + 1
          /\ workers'[nthreads'].pc = "start"

C11_NoAutomaticRetry == []C11_CleanSlate /\ [][C11_NoRetryStep]_vars

\* a run failed and ended, and the run the user started after it went
\* through every phase
C11_Witness ==
    \E w, v \in Runs :
        /\ w < v
        /\ workers[w].outcome = "Failed" /\ At(w, "done")
        /\ workers[w].failed \in SyncPhases \cup {"GeneratingHistory"}
        /\ workers[v].outcome = "Succeeded"
        /\ Len(workers[v].phases) = 3

(***************************************************************************)
(* C12. A step of a worker thread changes no widget and none of the        *)
(* in-memory data; the status label, the progress bar, the enabling of a   *)
(* button and the data change only in a callback the UI thread takes from  *)
(* its queue (the disabling of a button is the click handler's), and every *)
(* callback of a run that ran had been scheduled.                          *)
(***************************************************************************)
C12_RanWasScheduled ==
    \A w \in Runs :
        /\ workers[w].ran \ {"stop_and_hide"} \subseteq workers[w].sched
        /\ "stop_and_hide" \in workers[w].ran => "hide_progress" \in workers[w].ran

C12_Step ==
    /\ (\E w \in Runs : WorkerStep(w)) => UNCHANGED <<widgets, data>>
    /\ root_exists' /\ <<widgets, data>>' # <<widgets, data>> =>
          \/ UIStep
          \/ /\ start_refresh \/ start_download_mesa \/ prompt_download_mesa(TRUE)
             /\ UNCHANGED <<status_label, progress_bar, data>>
             /\ refresh_btn' \in {refresh_btn, DISABLED}
             /\ download_btn' \in {download_btn, DISABLED}

C12_MarshalledToUiThread == []C12_RanWasScheduled /\ [][C12_Step]_vars

\* the UI thread ran the callbacks of a run that succeeded: the label shows
\* its last status and the data is what the reload read
C12_Witness ==
    \E w \in Runs :
        /\ "load_data" \in workers[w].ran
        /\ status_label = CompleteStatus(workers[w].kind)
        /\ full_history_data = changelog_history_file
        /\ full_history_data.by = w

(***************************************************************************)
(* C13. get_version_key never raises; for a dotted numeric file name       *)
(* (digits separated by single dots, with or without the '.rst' suffix) it *)
(* returns one non-negative integer per segment, and for every other name  *)
(* it returns exactly [0, 0, 0].  The code does not keep the last part:    *)
(* int() accepts signs, white space and underscores, and replace() removes *)
(* '.rst' wherever it occurs.                                              *)
(***************************************************************************)
RemoveSuffix(s, suffix) ==
    IF EndsWith(s, suffix) THEN SubSeq(s, 1, Len(s) - Len(suffix)) ELSE s

AllDigits(s) == s # <<>> /\ \A i \in 1..Len(s) : IsDigit(s[i])

DottedNumeric(s) ==
    LET segs == split(s, <<".">>) IN \A i \in 1..Len(segs) : AllDigits(segs[i])

C13_VersionKey ==
    call.fn = "get_version_key" /\ call.returned =>
        LET stem == RemoveSuffix(call.args[1], DotRst)
            key == call.result
        IN /\ key.exc = "none"
           /\ DottedNumeric(stem) =>
                /\ Len(key.val) = Len(split(stem, <<".">>))
                /\ Len(key.val) >= 1
                /\ \A i \in 1..Len(key.val) : key.val[i] >= 0
           /\ ~DottedNumeric(stem) => key.val = <<0, 0, 0>>

(***************************************************************************)
(* C14. For months >= 0, compute_cutoff_date(months, now) returns a        *)
(* datetime that is <= now, whose year is <= now.year and whose day is     *)
(* <= 28, at midnight.  As stated, for every months and now, this fails:   *)
(* when the cutoff would fall before year 1 the call raises ValueError.    *)
(* It holds exactly when months is at most the number of months from       *)
(* January of year 1 to now's month.                                       *)
(***************************************************************************)
CutoffOk(months, now, cutoff) ==
    /\ cutoff.exc = "none"
    /\ Before(cutoff.val, now)
    /\ cutoff.val.year <= now.year
    /\ cutoff.val.day <= 28
    /\ cutoff.val.time = 0

C14_PastCutoff ==
    call.fn = "compute_cutoff_date" /\ call.returned /\ call.args[1] >= 0 =>
        CutoffOk(call.args[1], call.args[2], call.result)

\* the number of whole months from January of MINYEAR to the month of 'now'
MonthsSinceMin(now) == 12 * (now.year - MINYEAR) + (now.month - 1)

C14_PastCutoffInRange ==
    call.fn = "compute_cutoff_date" /\ call.returned /\ call.args[1] >= 0 =>
        IF call.args[1] <= MonthsSinceMin(call.args[2])
          THEN CutoffOk(call.args[1], call.args[2], call.result)
          ELSE call.result.exc = "ValueError"

\* a cutoff more than a year back that wrapped into the year before, from the
\* 31st of a month
C14_Witness ==
    /\ call.fn = "compute_cutoff_date" /\ call.returned
    /\ call.args[1] > 12
    /\ call.args[2].day = 31
    /\ call.result.exc = "none"
    /\ call.result.val.month > call.args[2].month
    /\ call.result.val.year = call.args[2].year - 2
    /\ call.result.val.day = 28

(***************************************************************************)
(* C15. For months < 0, as long as the cutoff does not fall after year     *)
(* MAXYEAR, compute_cutoff_date does not raise, the month of the result is *)
(* in 1..12, its year is >= now.year and the result is not earlier than    *)
(* the first day of now's month.                                           *)
(***************************************************************************)
MonthsUntilMax(now) == 12 * (MAXYEAR - now.year) + (12 - now.month)

Listed(rec) == \E i \in 3..Len(agg_text) : agg_text[i] = Row(rec)

Scenario(months, now) ==
    /\ call.fn = "generate_agg_list"
    /\ months_var = str(months)
    /\ call.args[1].year = now.year /\ call.args[1].month = now.month
    /\ call.args[1].day = now.day

ScenarioHolds(months, now) ==
    /\ compute_cutoff_date(months, now) = datetime(2024, 2, 28)
    /\ call.result = "none"
    /\ \A i \in 1..Len(full_history_data) :
         LET rec == full_history_data[i]
         IN /\ rec[1] = isodate(2024, 1, 1) => ~Listed(rec)
            /\ rec[1] = isodate(2024, 3, 1) => Listed(rec)

C16_Scenario12 ==
    LET now == [year |-> 2024, month |-> 3, day |-> 31, time |-> 0]
    IN Scenario(12, now) => ScenarioHolds(12, now)

C16_Scenario1 ==
    LET now == [year |-> 2024, month |-> 3, day |-> 31, time |-> 0]
    IN Scenario(1, now) => ScenarioHolds(1, now)

\* the list was generated on 2024-03-31 for 1 month from a history holding
\* both records: the later one is listed, the earlier one is not
C16_Witness ==
    /\ Scenario(1, [year |-> 2024, month |-> 3, day |-> 31])
    /\ full_history_data = <<<<isodate(2024, 1, 1), Hash, Word>>,
                             <<isodate(2024, 3, 1), Hash, Word>>>>
    /\ agg_text = Header(1) \o <<Row(full_history_data[2])>>

(***************************************************************************)
(* C17. load_data yields exactly one record per valid line of the history  *)
(* cache, in the order of the lines; a line is valid if, stripped, it      *)
(* matches 'date | message (hexhash)' or else contains ' | '.  Blank and   *)
(* unparseable lines add nothing and do not stop the lines after them from *)
(* being parsed.                                                           *)
(***************************************************************************)
ValidLine(line) ==
    \/ primary(strip(line)).exc = "none"
    \/ find(strip(line), <<" ", "|", " ">>, 1) # 0

\* the record of a valid line
RecordOf(line) ==
    LET s == strip(line)
        at == find(s, <<" ", "|", " ">>, 1)
    IN IF primary(s).exc = "none"
         THEN <<primary(s).val[1], primary(s).val[3], primary(s).val[2]>>
         ELSE <<SubSeq(s, 1, at - 1), <<"?">>, Drop(s, at + 2)>>

\* the positions of the valid lines, and the k-th of them
ValidAt(lines) == {i \in 1..Len(lines) : ValidLine(lines[i])}
Nth(S, k) == CHOOSE i \in S : Cardinality({j \in S : j <= i}) = k

C17_OneRecordPerValidLine ==
    call.fn = "load_data" /\ changelog_history_file.exists =>
        LET lines == changelog_history_file.lines
        IN /\ Len(full_history_data) = Cardinality(ValidAt(lines))
           /\ \A k \in 1..Len(full_history_data) :
                full_history_data[k] = RecordOf(lines[Nth(ValidAt(lines), k)])

\* a cache of an unparseable line followed by two valid lines, one of each
\* kind: both are loaded
C17_Witness ==
    /\ call.fn = "load_data" /\ changelog_history_file.exists
    /\ Len(changelog_history_file.lines) = 3
    /\ ~ValidLine(changelog_history_file.lines[1])
    /\ strip(changelog_history_file.lines[1]) # <<>>
    /\ Len(full_history_data) = 2
    /\ full_history_data[1][2] # <<"?">>
    /\ full_history_data[2][2] = <<"?">>

(***************************************************************************)
(* C18. What load_data leaves in memory depends only on the two cache      *)
(* files: whatever the memory held before, the records and the mapping are *)
(* those a load into empty memory gives, a second load with the files      *)
(* unchanged gives the same again, and absent files give an empty list and *)
(* an empty mapping.                                                       *)
(***************************************************************************)
C18_LoadDependsOnFilesOnly ==
    call.fn = "load_data" =>
        /\ full_history_data = load_history(<<>>, changelog_history_file)
        /\ summaries_data = load_releases(<<>>, summaries_file)
        /\ <<full_history_data, summaries_data>> = call.result
        /\ ~changelog_history_file.exists => full_history_data = <<>>
        /\ ~summaries_file.exists => summaries_data = <<>>

\* a second load over memory that held records and a release, from caches
\* with two valid lines and one release
C18_Witness ==
    /\ call.fn = "load_data" /\ call.args = 2
    /\ call.old[1] # <<>> /\ call.old[2] # <<>>
    /\ Len(full_history_data) = 2
    /\ DOMAIN summaries_data = {<<"1", ".", "2">>}
    /\ summaries_data[<<"1", ".", "2">>] = Word \o <<"\n">>

(***************************************************************************)
(* C19. Round trip: when the version-named, readable files of a            *)
(* release-notes directory are compiled and the summaries cache is then    *)
(* parsed, the keys of the mapping are exactly the versions of the files   *)
(* and the body of each version is the content of its file, with or        *)
(* without the blank line the compiler puts after the header.  The code    *)
(* does not keep this for every content: the pattern's \s* takes the white *)
(* space at the start of a body, and the blank lines at its end go to the  *)
(* next header.                                                            *)
(***************************************************************************)
RoundTripped ==
    /\ call.fn = "generate_summaries_python" /\ call.returned /\ call.parsed
    /\ call.args[1].exists
    /\ \A i \in 1..Len(call.args[1].files) :
         IsVersionFile(call.args[1].files[i].name) /\ call.args[1].files[i].readable

C19_RoundTrip ==
    RoundTripped =>
        LET fs == call.args[1].files
        IN /\ DOMAIN summaries_data = {remove(fs[i].name, DotRst) : i \in 1..Len(fs)}
           /\ \A i \in 1..Len(fs) :
                summaries_data[remove(fs[i].name, DotRst)]
                    \in {fs[i].content, <<"\n">> \o fs[i].content}

(***************************************************************************)
(* C20. load_summaries takes as a key the version of every header, written *)
(* with any widths of the two '=' lines and any white space at the start   *)
(* and the end of its lines and around the version; a document without a   *)
(* header gives an empty mapping.  As stated, for every such header, this  *)
(* fails: the pattern ends in \n, so a header whose closing line is the    *)
(* last line of the document and has no newline is not matched, and a      *)
(* header whose opening line was taken as the closing line of the match    *)
(* before it is not matched either.  It holds for the other headers.       *)
(***************************************************************************)
\* load_summaries has parsed the document call.args[2] (there is no
\* release-notes directory, so nothing else is written to the cache)
ParsedDocument ==
    /\ call.fn = "generate_summaries_python" /\ call.parsed
    /\ ~call.args[1].exists

\* every header of the document has two delimiter lines of its own
OwnDelimiters(d) == \A i \in 1..Len(d.blocks) : d.blocks[i].own

C20_EveryHeader ==
    ParsedDocument /\ OwnDelimiters(call.args[2]) =>
        LET d == call.args[2]
        IN DOMAIN summaries_data = {d.blocks[i].version : i \in 1..Len(d.blocks)}

\* the closing line of header i ends with a newline, and its opening line
\* is its own or was not used up by the header before it
RECURSIVE Matched(_, _)
Matched(d, i) ==
    /\ i < Len(d.blocks) \/ d.newline
    /\ d.blocks[i].own \/ ~Matched(d, i - 1)

C20_TerminatedHeaders ==
    ParsedDocument =>
        LET d == call.args[2]
        IN /\ DOMAIN summaries_data =
                {d.blocks[i].version : i \in {j \in 1..Len(d.blocks) : Matched(d, j)}}
           /\ d.blocks = <<>> => summaries_data = <<>>

\* two headers with delimiter lines of different widths and white space
\* around everything: both versions are keys
C20_Witness ==
    /\ ParsedDocument
    /\ Len(call.args[2].blocks) = 2
    /\ call.args[2].lead = <<" ", "\t">> /\ call.args[2].trail = <<" ">>
    /\ call.args[2].blocks[1].w1 # call.args[2].blocks[1].w2
    /\ call.args[2].blocks[2].w1 # call.args[2].blocks[2].w2
    /\ DOMAIN summaries_data = {<<"1", ".", "2">>, <<"2", ".", "0">>}

(***************************************************************************)
(* C21. filter_history with a non-empty query displays exactly the         *)
(* records, in their original order, whose hash or message contains the    *)
(* query as a case-insensitive substring (the date is never matched), and  *)
(* with an empty query the full record sequence; full_history_data is      *)
(* left unchanged.  As stated it fails when more than TreeRows records     *)
(* are to be displayed: the table shows the first TreeRows of them.        *)
(***************************************************************************)
\* the two characters are the same letter in either case, or the same character
SameLetter(a, b) ==
    \/ a = b
    \/ \E k \in 1..Len(Uppercase) : {a, b} = {Uppercase[k], Lowercase[k]}

\* q occurs in t, case ignored
OccursIn(q, t) ==
    \E off \in 0..(Len(t) - Len(q)) : \A j \in 1..Len(q) : SameLetter(t[off + j], q[j])

\* the records the query selects, in their order
Selected(q) ==
    IF q = <<>> THEN full_history_data
    ELSE SelectSeq(full_history_data, LAMBDA r : OccursIn(q, r[2]) \/ OccursIn(q, r[3]))

Filtered == call.fn = "filter_history"

C21_DisplaysSelected ==
    Filtered => tree = Selected(call.args[1])

\* the handler leaves full_history_data alone
C21_HistoryUnchanged ==
    [][(\E text \in Queries : filter_history(text)) =>
           full_history_data' = full_history_data]_vars

\* C21 as stated: the table shows exactly the selected records, and the
\* record list is left unchanged.
C21_DisplaysExactly == []C21_DisplaysSelected /\ C21_HistoryUnchanged

\* C21, amended: the table shows the first TreeRows of the selected records
\* (all of them when there are no more than TreeRows), in their order.
C21_FirstSelected ==
    Filtered =>
        LET sel == Selected(call.args[1])
        IN /\ Len(tree) = (IF Len(sel) < TreeRows THEN Len(sel) ELSE TreeRows)
           /\ \A k \in 1..Len(tree) : tree[k] = sel[k]

\* C21, amended: filter_history displays the first TreeRows of the selected
\* records and leaves full_history_data unchanged.
C21_DisplaysFirstSelected == []C21_FirstSelected /\ C21_HistoryUnchanged

\* a query in capitals selected some of the records by their message and
\* left out a record whose date alone holds the query's text
C21_Witness ==
    /\ Filtered
    /\ call.args[1] = <<"F", "I">>
    /\ Len(full_history_data) = 2
    /\ Len(tree) = 1
    /\ tree[1] = full_history_data[2]

(***************************************************************************)
(* C22. When the months input of generate_agg_list is not parseable as an  *)
(* integer, exactly one input-error notification is shown, the operation   *)
(* returns without raising, and the aggregated output text, the status     *)
(* line and full_history_data are left unchanged.                          *)
(***************************************************************************)
\* the text is a decimal number, signed or not, white space around it
IsInteger(s) ==
    LET t == strip(s)
    IN AllDigits(t) \/ (t # <<>> /\ Head(t) \in {"+", "-"} /\ AllDigits(Tail(t)))

C22_InputError ==
    [][\A now \in AggNows :
          generate_agg_list(now) /\ ~IsInteger(months_var) =>
              /\ call'.result = "Input Error"
              /\ agg_text' = agg_text
              /\ status_label' = status_label /\ after_queue' = after_queue
              /\ full_history_data' = full_history_data]_vars

\* the handler has returned after the input error, with records in memory
\* and an earlier list in the text widget
C22_Witness ==
    /\ call.fn = "generate_agg_list" /\ call.result = "Input Error"
    /\ ~IsInteger(months_var)
    /\ full_history_data # <<>>
    /\ agg_text = Header(3)

(***************************************************************************)
(* C23. For months >= 0, compute_cutoff_date(months, now) lies exactly     *)
(* months calendar months before now:                                      *)
(*   (now.year*12 + now.month) - (cutoff.year*12 + cutoff.month) = months  *)
(* and cutoff.day = min(now.day, 28); 1 month before 2024-03-31 is         *)
(* 2024-02-28 and 3 months before it is 2023-12-28.  As stated, for every  *)
(* months >= 0 and every now, it fails where the cutoff would fall before  *)
(* year MINYEAR: the call raises ValueError there.                         *)
(***************************************************************************)
MonthsBefore(months, now, cutoff) ==
    /\ cutoff.exc = "none"
    /\ (12 * now.year + now.month) - (12 * cutoff.val.year + cutoff.val.month) = months
    /\ cutoff.val.day = (IF now.day <= 28 THEN now.day ELSE 28)

C23_ExactMonths ==
    call.fn = "compute_cutoff_date" /\ call.returned /\ call.args[1] >= 0 =>
        MonthsBefore(call.args[1], call.args[2], call.result)

\* C23, amended: the same for the months that do not reach before January
\* of year MINYEAR.
C23_ExactMonthsInRange ==
    /\ call.fn = "compute_cutoff_date" /\ call.returned
    /\ call.args[1] >= 0 /\ call.args[1] <= MonthsSinceMin(call.args[2])
    => MonthsBefore(call.args[1], call.args[2], call.result)

\* the examples: 1 and 3 months before 2024-03-31
C23_Examples ==
    LET now == [year |-> 2024, month |-> 3, day |-> 31, time |-> 0]
    IN /\ compute_cutoff_date(1, now) = datetime(2024, 2, 28)
       /\ compute_cutoff_date(3, now) = datetime(2023, 12, 28)

\* C23, amended, with its two examples
C23_MonthsBeforeNow == C23_ExactMonthsInRange /\ C23_Examples

\* 3 months before 2024-03-31 has been computed: 2023-12-28
C23_Witness ==
    /\ call.fn = "compute_cutoff_date" /\ call.returned
    /\ call.args[1] = 3
    /\ call.args[2].year = 2024 /\ call.args[2].month = 3 /\ call.args[2].day = 31
    /\ call.result = datetime(2023, 12, 28)

(***************************************************************************)
(* C24. Every record held in full_history_data after a load_data conforms  *)
(* to the data model: its date has the shape yyyy-mm-dd, and its hash is a *)
(* non-empty lowercase-hex text or the placeholder '?'.  As stated it      *)
(* fails for the date of a record made by the ' | ' split, which is the    *)
(* text before the first ' | ' of the line, whatever it is.                *)
(***************************************************************************)
IsoShape(d) ==
    /\ Len(d) = 10
    /\ \A i \in {1, 2, 3, 4, 6, 7, 9, 10} : IsDigit(d[i])
    /\ d[5] = "-" /\ d[8] = "-"

LowerHex(h) == h # <<>> /\ \A i \in 1..Len(h) : IsHex(h[i])

Placeholder == <<"?">>

Loaded == call.fn = "load_data"

C24_RecordsConform ==
    Loaded =>
        \A k \in 1..Len(full_history_data) :
            /\ IsoShape(full_history_data[k][1])
            /\ LowerHex(full_history_data[k][2]) \/ full_history_data[k][2] = Placeholder

\* C24, amended: the hash is lowercase hex or the placeholder; the date has
\* the shape yyyy-mm-dd where the hash is hex, and no ' | ' in it otherwise.
C24_HashConforms ==
    Loaded =>
        \A k \in 1..Len(full_history_data) :
            LET rec == full_history_data[k]
            IN IF rec[2] = Placeholder
                 THEN find(rec[1], <<" ", "|", " ">>, 1) = 0
                 ELSE LowerHex(rec[2]) /\ IsoShape(rec[1])

\* a load gave a record with a hex hash and one with the placeholder whose
\* date has not the shape, and the cache held a line with a hash that is
\* not hex
C24_Witness ==
    /\ Loaded
    /\ \E k \in 1..Len(full_history_data) : LowerHex(full_history_data[k][2])
    /\ \E k \in 1..Len(full_history_data) :
         /\ full_history_data[k][2] = Placeholder
         /\ ~IsoShape(full_history_data[k][1])
    /\ \E i \in 1..Len(changelog_history_file.lines) :
         EndsWith(changelog_history_file.lines[i], <<"(", "x", ")">>)

(***************************************************************************)
(* C25. generate_summaries_python writes blocks only for the directory     *)
(* entries matching ^\d+\.\d+(\.\d+)?\.rst$, in descending order of their  *)
(* version key, entries of equal key in their listing order, and writes at *)
(* most TopCount blocks: those of the TopCount entries with the highest    *)
(* keys.                                                                   *)
(***************************************************************************)
\* two or three groups of digits separated by dots, then '.rst'
VersionShaped(name) ==
    /\ EndsWith(name, DotRst)
    /\ DottedNumeric(RemoveSuffix(name, DotRst))
    /\ Len(split(RemoveSuffix(name, DotRst), <<".">>)) \in {2, 3}

\* the numbers of a version-shaped name
Numbers(name) ==
    LET segs == split(RemoveSuffix(name, DotRst), <<".">>)
    IN [i \in 1..Len(segs) |-> decimal(segs[i], 0)]

\* a is a higher key than b: greater at the first place where they differ,
\* or b with more numbers behind it
Higher(a, b) ==
    \E k \in 1..Len(a) :
        /\ \A j \in 1..(k - 1) : j <= Len(b) /\ a[j] = b[j]
        /\ k > Len(b) \/ a[k] > b[k]

\* the entries that match, and the place of each in the order of the claim
Matching(fs) == {i \in 1..Len(fs) : VersionShaped(fs[i].name)}
Precedes(fs, j, i) ==
    \/ Higher(Numbers(fs[j].name), Numbers(fs[i].name))
    \/ Numbers(fs[j].name) = Numbers(fs[i].name) /\ j < i
Place(fs, i) == 1 + Cardinality({j \in Matching(fs) : Precedes(fs, j, i)})

\* the entries that get a block, in the order of their blocks
Selection(fs) ==
    LET n == IF Cardinality(Matching(fs)) < TopCount
               THEN Cardinality(Matching(fs)) ELSE TopCount
    IN [k \in 1..n |-> fs[CHOOSE i \in Matching(fs) : Place(fs, i) = k]]

Compiled ==
    /\ call.fn = "generate_summaries_python" /\ call.returned
    /\ call.args[1].exists

C25_BlocksOfTopVersions ==
    Compiled =>
        /\ summaries_file.exists
        /\ summaries_file.text = Preamble \o Blocks(Selection(call.args[1].files))

\* a directory of more version-named files than are compiled, some with
\* equal keys, and a file that is not version-named, has been compiled
C25_Witness ==
    /\ Compiled
    /\ LET fs == call.args[1].files
       IN /\ Cardinality(Matching(fs)) > TopCount
          /\ Matching(fs) # 1..Len(fs)
          /\ \E i, j \in Matching(fs) :
                i # j /\ Numbers(fs[i].name) = Numbers(fs[j].name)
    /\ summaries_file.exists

(***************************************************************************)
(* C26. If a selected release file cannot be read, its block still has its *)
(* header, with an error annotation in place of the body, and every other  *)
(* selected release still has its complete block in the output: the        *)
(* failure of one file does not abort the compilation.                     *)
(***************************************************************************)
\* the header of a release, as the compiler writes it
HeaderOf(name) ==
    <<"\n">> \o rule(RuleWidth) \o <<"\n", " ">> \o Keyword \o <<" ">>
    \o RemoveSuffix(name, DotRst) \o <<"\n">> \o rule(RuleWidth) \o <<"\n", "\n">>

\* what follows the header of a release
BodyOf(f) == IF f.readable THEN f.content ELSE ErrorNote(f.name)

\* the length of the blocks of the files fs[lo..hi]
RECURSIVE Span(_, _, _)
Span(fs, lo, hi) ==
    IF lo > hi THEN 0
    ELSE IF lo = hi THEN Len(HeaderOf(fs[lo].name)) + Len(BodyOf(fs[lo]))
    ELSE Span(fs, lo, (lo + hi) \div 2) + Span(fs, (lo + hi) \div 2 + 1, hi)

\* the text is made of the blocks of the files fs, in their order
HoldsBlocks(text, fs) ==
    /\ Len(text) = Span(fs, 1, Len(fs))
    /\ \A k \in 1..Len(fs) :
         SubSeq(text, Span(fs, 1, k - 1) + 1, Span(fs, 1, k))
           = HeaderOf(fs[k].name) \o BodyOf(fs[k])

C26_UnreadableFileAnnotated ==
    Compiled =>
        /\ summaries_file.exists
        /\ StartsWith(summaries_file.text, Preamble)
        /\ HoldsBlocks(Drop(summaries_file.text, Len(Preamble)), top_50(call.args[1]))

\* two releases have been compiled, of which the one that comes first could
\* not be read and the other has content
C26_Witness ==
    /\ Compiled
    /\ LET sel == top_50(call.args[1])
       IN /\ Len(sel) = 2
          /\ ~sel[1].readable
          /\ sel[2].readable /\ sel[2].content # <<>>
    /\ summaries_file.exists

(***************************************************************************)
(* C27. Whenever a worker run ends in Succeeded, both cache files were     *)
(* overwritten wholesale during that run: when the run reaches the end of  *)
(* its try block the history cache holds the log output of this run and    *)
(* the summaries cache the compilation of this run, also when the mirror   *)
(* has no release-notes directory.                                         *)
(***************************************************************************)
\* the complete output of run w
OutputOf(w) == [by |-> w, st |-> "complete"]

C27_Step ==
    \A w \in Runs :
        complete(w) =>
            /\ {"history", "summaries"} \subseteq workers[w].wrote
            /\ changelog_history_file = OutputOf(w)
            /\ summaries_file = OutputOf(w)

C27_SucceededOverwroteCaches == [][C27_Step]_vars

(***************************************************************************)
(* C28. For every matched release header, the body stored by               *)
(* load_summaries is the text of the document from right after the         *)
(* header's closing delimiter line up to the start of the next matched     *)
(* header (or the end of the document), verbatim and untrimmed, a leading  *)
(* blank line and trailing blank lines included.  Checked on the documents *)
(* whose headers are all matched: there the text between two headers is    *)
(* the body the document was made of, and of two headers with the same     *)
(* version the later one gives the body.  The code does not keep the blank *)
(* lines: the \s* at both ends of the pattern takes them.                  *)
(***************************************************************************)
\* header i is the last one of its version
LastOfVersion(d, i) ==
    \A j \in (i + 1)..Len(d.blocks) : d.blocks[j].version # d.blocks[i].version

C28_BodyVerbatim ==
    ParsedDocument /\ OwnDelimiters(call.args[2]) /\ call.args[2].newline =>
        LET d == call.args[2]
        IN \A i \in 1..Len(d.blocks) :
              LastOfVersion(d, i) =>
                  /\ d.blocks[i].version \in DOMAIN summaries_data
                  /\ summaries_data[d.blocks[i].version] = d.blocks[i].body

(***************************************************************************)
(* C29. For an integer months input, generate_agg_list emits, after its    *)
(* two header lines, exactly one line '<date> | <message> (<hash>)' for    *)
(* each record whose date parses as a calendar date (year-month-day) and   *)
(* is >= the cutoff, in input order; records with unparseable dates are    *)
(* left out without error, the entry count reported equals the number of   *)
(* record lines, and full_history_data is unchanged.  As stated, for every *)
(* integer months, it fails where the cutoff falls outside the calendar:   *)
(* compute_cutoff_date raises and nothing is emitted.                      *)
(***************************************************************************)
\* the value of an integer text
IntValue(s) ==
    LET t == strip(s)
    IN IF Head(t) = "-" THEN 0 - decimal(Tail(t), 0)
       ELSE IF Head(t) = "+" THEN decimal(Tail(t), 0)
       ELSE decimal(t, 0)

\* the text is a date of the calendar: digits for the year, the month and
\* the day, with '-' between them, that name an existing day
CalendarDate(s) ==
    LET p == split(s, <<"-">>)
    IN /\ Len(p) = 3
       /\ AllDigits(p[1]) /\ Len(p[1]) = 4
       /\ AllDigits(p[2]) /\ Len(p[2]) <= 2
       /\ AllDigits(p[3]) /\ Len(p[3]) <= 2
       /\ decimal(p[1], 0) >= MINYEAR
       /\ decimal(p[2], 0) \in 1..12
       /\ decimal(p[3], 0) \in 1..DaysInMonth(decimal(p[1], 0), decimal(p[2], 0))

\* the day as one number, of a date text and of a datetime
DayNumber(s) ==
    LET p == split(s, <<"-">>)
    IN 10000 * decimal(p[1], 0) + 100 * decimal(p[2], 0) + decimal(p[3], 0)
DayNumberOf(t) == 10000 * t.year + 100 * t.month + t.day

\* the records to be listed, in their order, and the line of one
ToList(cutoff) ==
    SelectSeq(full_history_data,
              LAMBDA r : CalendarDate(r[1]) /\ DayNumber(r[1]) >= DayNumberOf(cutoff))
LineOf(r) == r[1] \o <<" ", "|", " ">> \o r[3] \o <<" ", "(">> \o r[2] \o <<")">>

\* the handler emitted the header and the lines, and reported their number
Emitted(months, cutoff) ==
    /\ call'.result = "none"
    /\ Len(agg_text') = 2 + Len(ToList(cutoff))
    /\ SubSeq(agg_text', 1, 2) = Header(months)
    /\ \A k \in 1..Len(ToList(cutoff)) : agg_text'[2 + k] = LineOf(ToList(cutoff)[k])
    /\ after_queue' = Append(after_queue,
                             Status(0, <<"Generated ", Len(agg_text') - 2, " entries.">>))
    /\ full_history_data' = full_history_data

C29_Step ==
    \A now \in AggNows :
        generate_agg_list(now) /\ IsInteger(months_var) =>
            /\ compute_cutoff_date(IntValue(months_var), now).exc = "none"
            /\ Emitted(IntValue(months_var), compute_cutoff_date(IntValue(months_var), now).val)

C29_ListsRecordsInRange == [][C29_Step]_vars

\* C29, amended: the same for the months whose cutoff is a date of the
\* calendar; for the others an error is shown and nothing is emitted.
C29_StepInCalendar ==
    \A now \in AggNows :
        generate_agg_list(now) /\ IsInteger(months_var) =>
            LET months == IntValue(months_var)
                cutoff == compute_cutoff_date(months, now)
            IN IF cutoff.exc = "none"
                 THEN Emitted(months, cutoff.val)
                 ELSE /\ call'.result = "Generation Error"
                      /\ agg_text' = agg_text /\ after_queue' = after_queue
                      /\ full_history_data' = full_history_data

C29_ListsRecordsInCalendar == [][C29_StepInCalendar]_vars

\* a list has been generated from a record whose date is no date followed
\* by a record in range: the one line is that of the second record, and the
\* count is to be reported
C29_Witness ==
    /\ call.fn = "generate_agg_list" /\ call.result = "none"
    /\ Len(full_history_data) = 2
    /\ ~CalendarDate(full_history_data[1][1])
    /\ CalendarDate(full_history_data[2][1])
    /\ Len(agg_text) = 3
    /\ agg_text[3] = LineOf(full_history_data[2])
    /\ after_queue = <<Status(0, <<"Generated ", 1, " entries.">>)>>

(***************************************************************************)
(* C30. When git was not found at start-up, the 'Refresh' button is        *)
(* disabled in every reachable state in which the window exists: it stays  *)
(* disabled after any sequence of download attempts and their completions, *)
(* and no refresh worker is ever started.                                  *)
(***************************************************************************)
C30_RefreshStaysDisabled ==
    git_path = "None" /\ root_exists =>
        /\ refresh_btn = DISABLED
        /\ \A w \in Runs : workers[w].kind # "refresh"

====
